---------------------------- MODULE Spec2Model ----------------------------
(***************************************************************************)
(* A model of the off-chain arbitrage engine of MyNilla (BaseAlphaArb).    *)
(*                                                                         *)
(* Several cooperating parts of the program are modelled, each with its    *)
(* own specification over the shared set of variables:                     *)
(*                                                                         *)
(*   SpecBuilder  the TransactionBuilder (src/src/transactionBuilder.js):  *)
(*                nonce counter, fee selection, build / validate / send;   *)
(*   SpecBot      the orchestrator (src/src/bot.js): start / stop, the     *)
(*                scan loop, candidate evaluation, execution, emergency    *)
(*                stop and the process-level handlers;                     *)
(*   SpecRpc      the RPC transport (src/src/rpcManager.js): endpoint      *)
(*                selection, failure counting, health probes;              *)
(*   SpecRestored the same, following an endpoint past its restoration by  *)
(*                a probe;                                                 *)
(*   SpecAlert    the alerting system (src/src/alerting.js): sendAlert     *)
(*                with its per-key cooldown and its channels;              *)
(*   SpecReplace  cancelTransaction / speedUpTransaction of the builder;   *)
(*   SpecCandidate  the body of scanCycle's candidate loop applied to one  *)
(*                opportunity at a time;                                   *)
(*   SpecScanner  OpportunityScanner.scan() (src/unnamed/part_001): the    *)
(*                opportunities it builds for the monitored pairs;         *)
(*   SpecRoute    AggregatorService.getRoute (src/unnamed/part_000) with   *)
(*                its route cache, called by two concurrent callers;       *)
(*   SpecBest     AggregatorService.getBestRoute over the sources of       *)
(*                config.aggregatorPriority, with RateLimiter.schedule;    *)
(*   LiveSpecBest the same with the fairness of the event loop;            *)
(*   SpecGuard    MEVProtection.checkOpportunity (src/unnamed/part_002)    *)
(*                and what evaluateOpportunity does with its answer;       *)
(*   SpecWindow   the pending-transaction window of MEVProtection and its  *)
(*                cleanup interval;                                        *)
(*   SpecDeadline executeOpportunity (src/src/bot.js) and the contract's   *)
(*                executeArbitrage (src/contracts/BaseAlphaArb.sol) for    *)
(*                an opportunity with a deadline;                          *)
(*   SpecStartup  start() and initialize() (src/src/bot.js) with the       *)
(*                validation of the configuration;                         *)
(*   SpecSignal   ZScoreEngine.getTradingSignal (src/src/rateLimiter.js);  *)
(*   SpecSlippage SlippageModel.estimateSlippageForLiquidity               *)
(*                (src/src/profitCalculator.js);                           *)
(*   SpecSimulation  ProfitCalculator.simulateTransaction, remote and      *)
(*                local;                                                   *)
(*   SpecPremium  ProfitCalculator.calculateFlashLoanCost;                 *)
(*   SpecMetrics  MetricsCollector.recordExecution (src/src/metrics.js);   *)
(*   SpecFlashLoan  executeArbitrage and executeOperation of the contract  *)
(*                (src/contracts/BaseAlphaArb.sol);                        *)
(*   SpecMempool  the mempool monitoring of MEVProtection                  *)
(*                (src/unnamed/part_002);                                  *)
(*   SpecCointegration  ZScoreEngine.testCointegration for one pair, with  *)
(*                getHistoricalPrices and getMonitoredPairs;               *)
(*   SpecStatistical  scanStatisticalArbitrage on one monitored pair       *)
(*                (src/unnamed/part_001);                                  *)
(*   SpecCycle    the candidate loop of one scanCycle, candidate by        *)
(*                candidate.                                               *)
(*                                                                         *)
(* JavaScript runs one task at a time and switches task only at an await;  *)
(* every action below is the code between two awaits of one task.          *)
(***************************************************************************)
EXTENDS Integers, Sequences, FiniteSets, TLC

VARIABLES
    \* ---- TransactionBuilder ----
    nonce,        \* this.nonce; NoNonce while it is null
    chainCount,   \* the chain's pending transaction count of the wallet
    bpc,          \* position of every builder task
    fetched,      \* the count a task's updateNonce read from the chain
    tx,           \* the transaction an executing task is building
    issued,       \* nonces handed out by getNonce, in order (history)
    sent,         \* transactions of executeOpportunity accepted by sendTransaction (history)
    pendingTxs,   \* this.pendingTxs: the tracked transactions, one per hash
    repl,         \* the cancelTransaction / speedUpTransaction call under way
    \* ---- BaseAlphaArbBot ----
    isRunning,            \* this.isRunning
    emergencyShutdown,    \* this.emergencyShutdown
    consecutiveErrors,    \* this.consecutiveErrors
    pendingTransactions,  \* this.pendingTransactions, keyed by the broadcasting task
    lpc,                  \* position of every start() task
    cands,                \* candidates of the cycle a task has not processed yet
    gates,                \* gate results of the candidate a task is executing
    hpc,                  \* position of the uncaught-exception handler
    spc,                  \* position of the stop() task ("stopped": stop(true) has returned)
    stopElapsed,          \* seconds stop() has waited for pending transactions
    \* ---- RPCManager ----
    isHealthy,      \* node.isHealthy of every endpoint
    failureCount,   \* node.failureCount of every endpoint
    currentIndex,   \* this.currentIndex, the round-robin cursor
    inflight,       \* calls running through executeWithLimiters, per endpoint
    timers,         \* pending setTimeout callbacks that will probe an endpoint
    probes,         \* checkNodeHealth calls awaiting getBlockNumber, per endpoint
    failStreak,     \* failed calls on an endpoint since its last successful call (history)
    \* ---- AlertingSystem ----
    clock,           \* Date.now(), in seconds
    initialized,     \* this.initialized
    enabled,         \* the channels whose config.enabled is true
    alertCooldowns,  \* this.alertCooldowns: alert key -> time of the last alert
    acall,           \* the sendAlert call of every task: position, key, now, channels left
    alertLog,        \* alerts that passed the cooldown check, in order (history)
    \* ---- one pass of scanCycle's candidate loop ----
    opp,             \* the opportunity the loop body is given
    verdict,         \* what the loop body did with it
    \* ---- OpportunityScanner.scan() ----
    stage,           \* the part of scan() that runs next
    todo,            \* monitored pairs scanStatisticalArbitrage has not visited
    opportunities,   \* the opportunities pushed so far
    \* ---- AggregatorService.getRoute and its cache ----
    gclock,          \* Date.now() in seconds
    providerRequests,\* requests handed to rateLimiter.schedule so far
    routeCache,      \* cache key -> the entry of this.cache, or NoEntry
    gcall,           \* per caller: the getRoute call it waits in
    lastFetch,       \* cache key -> the route last fetched and returned, and when
    lastCall,        \* cache key -> how the call made last for it ended
    \* ---- AggregatorService.getBestRoute ----
    best,            \* the getBestRoute call: position, routes, errors, result
    \* ---- MEVProtection.checkOpportunity ----
    guard,           \* the candidate, how its vetoes settled, the verdict
    \* ---- MEVProtection.pendingTransactions ----
    wclock,          \* Date.now() in seconds
    window,          \* txKey -> timestamp of the entry, or Absent
    nextCleanup,     \* when the cleanup interval fires next
    \* ---- functions of their arguments alone ----
    input,           \* the arguments drawn for the function under study
    output           \* what it returned for them, once it was applied

builderVars == <<nonce, chainCount, bpc, fetched, tx, issued, sent, pendingTxs, repl>>

botVars == <<isRunning, emergencyShutdown, consecutiveErrors, pendingTransactions,
             lpc, cands, gates, hpc, spc, stopElapsed>>

rpcVars == <<isHealthy, failureCount, currentIndex, inflight, timers, probes,
             failStreak>>

alertVars == <<clock, initialized, enabled, alertCooldowns, acall, alertLog>>

candVars == <<opp, verdict>>

scanVars == <<stage, todo, opportunities>>

routeVars == <<gclock, routeCache, gcall, providerRequests, lastFetch, lastCall>>

bestVars == <<best>>

guardVars == <<guard>>

windowVars == <<wclock, window, nextCleanup>>

pureVars == <<input, output>>

vars == <<builderVars, botVars, rpcVars, alertVars, candVars, scanVars, routeVars,
          bestVars, guardVars, windowVars, pureVars>>

\* A step of one part of the program leaves the other parts alone.
BuilderOnly ==
    UNCHANGED <<botVars, rpcVars, alertVars, candVars, scanVars,
                routeVars, bestVars, guardVars, windowVars, pureVars>>
BotOnly ==
    UNCHANGED <<builderVars, rpcVars, alertVars, candVars, scanVars,
                routeVars, bestVars, guardVars, windowVars, pureVars>>
RpcOnly ==
    UNCHANGED <<builderVars, botVars, alertVars, candVars, scanVars,
                routeVars, bestVars, guardVars, windowVars, pureVars>>
AlertOnly ==
    UNCHANGED <<builderVars, botVars, rpcVars, candVars, scanVars,
                routeVars, bestVars, guardVars, windowVars, pureVars>>
CandOnly ==
    UNCHANGED <<builderVars, botVars, rpcVars, alertVars, scanVars,
                routeVars, bestVars, guardVars, windowVars, pureVars>>
ScanOnly ==
    UNCHANGED <<builderVars, botVars, rpcVars, alertVars, candVars,
                routeVars, bestVars, guardVars, windowVars, pureVars>>
RouteOnly ==
    UNCHANGED <<builderVars, botVars, rpcVars, alertVars, candVars,
                scanVars, bestVars, guardVars, windowVars, pureVars>>
BestOnly ==
    UNCHANGED <<builderVars, botVars, rpcVars, alertVars, candVars,
                scanVars, guardVars, windowVars, pureVars>>
GuardOnly ==
    UNCHANGED <<builderVars, botVars, rpcVars, alertVars, candVars,
                scanVars, routeVars, bestVars, windowVars, pureVars>>
WindowOnly ==
    UNCHANGED <<builderVars, botVars, rpcVars, alertVars, candVars,
                scanVars, routeVars, bestVars, guardVars, pureVars>>
PureOnly ==
    UNCHANGED <<builderVars, botVars, rpcVars, alertVars, candVars,
                scanVars, routeVars, bestVars, guardVars, windowVars>>

-----------------------------------------------------------------------------
(***************************************************************************)
(* Bounds of the model and constants of the program.                       *)
(***************************************************************************)

\* Builds started in one run of the builder model.
MaxBuilds == 2

\* config.maxGasPriceGwei (config.json is not part of the sources; 50 is the
\* default the code falls back to).
MaxGasPriceGwei == 50

\* this.maxConsecutiveErrors
MaxConsecutiveErrors == 10

\* config.minProfitThresholdUSD (config.json is not part of the sources).
MinProfitThresholdUSD == 10

\* scanCycle processes the best TopN candidates of a scan.
TopN == 5

\* The most opportunities one scan returns.
MaxCands == 2

\* testCointegration's default lookback, the samples getHistoricalPrices
\* aims at, and getMonitoredPairs' halfLifeThreshold.
Lookback == 500

SamplesPerLookback == 100

HalfLifeThreshold == 20

\* The most 'pending' subscriptions followed.
MaxSubscriptions == 5

\* The most executions recorded by the metrics collector.
MaxExecutions == 4

\* The most opportunities of the scan whose candidate loop is followed
\* candidate by candidate.
MaxScanned == 6

\* stop(): seconds waited at most for pending transactions, and the length of
\* one sleep of that wait.
MaxWaitTime == 30
StopSleep == 5
MaxHops == 6

\* getRoute: the TTL of a cached route in seconds; validateRouteResponse:
\* the smallest return amount accepted.
RouteTTL == 5
MinReturn == 100

\* cleanupOldTransactions: the age in seconds beyond which an entry is
\* deleted; startMempoolMonitoring: the seconds between two cleanups.
WindowSpan == 60
CleanupEvery == 60

\* config.rpcNodes.length: the endpoints of the transport (the validator asks
\* for at least this many).
NumNodes == 3

\* executeWithLimiters marks an endpoint unhealthy at this failureCount.
UnhealthyAfter == 3

\* The highest failureCount an endpoint reaches in one run of the model.
MaxFailureCount == 3

\* The same where calls go on failing on an endpoint that a probe restored.
MaxRestoredFailureCount == 4

\* Calls in flight through executeWithLimiters at one time, all endpoints.
MaxInflight == 1

\* Probe timers and probes outstanding at one time, all endpoints.
MaxPending == 3

\* Alerts that pass the cooldown check in one run.
MaxAlerts == 2

\* cancelTransaction / speedUpTransaction calls in one run.
MaxReplacements == 1

\* config.zScoreSettings.entryThreshold
EntryThreshold == 2

\* The pending-transaction window is observed for this many seconds, in
\* steps of this many seconds, with this many transactions arriving.
MaxWindowClock == 180
WindowStep == 20
MaxArrivals == 3

\* this.windowSize of the ZScoreEngine: the number of ratios asked for.
ZWindowSize == 4

\* The fallbacks of this.entryThreshold (2.0) and this.exitThreshold (0.5),
\* in tenths.
DefaultEntryThreshold == 20
DefaultExitThreshold == 5

\* Trade sizes run from 0 to this many USD.
MaxTradeSize == 3

\* A gross profit runs from 0 to MaxGrossUSD, and each of gas cost,
\* flash-loan premium and slippage buffer from 0 to MaxCostUSD.
MaxGrossUSD == 4
MaxCostUSD == 2

\* Loan amounts run over 0 .. MaxLoanAmount and some larger ones.
MaxLoanAmount == 40

\* The premium in basis points when none is configured.
DefaultPremiumBps == 9

\* Deadlines and execution times are drawn from 0 .. MaxTime seconds.
MaxTime == 3

\* The validation of the configuration reports up to this many errors.
MaxConfigErrors == 2

\* The route cache is observed for this many seconds, and the callers hand
\* at most this many requests to the rate limiter.
MaxRouteClock == 6
MaxRequests == 2

Min(a, b) == IF a < b THEN a ELSE b

-----------------------------------------------------------------------------
(***************************************************************************)
(* TransactionBuilder                                                      *)
(*                                                                         *)
(* Fees are counted in units of 0.1 gwei (10^8 wei), so that 1.5 gwei is   *)
(* the integer 15.                                                         *)
(***************************************************************************)

\* this.nonce === null
NoNonce == [set |-> FALSE, value |-> 0]

SomeNonce(n) == [set |-> TRUE, value |-> n]

\* ethers.parseUnits(x, 'gwei'), in units of 0.1 gwei
ParseGwei(x) == x * 10

\* The tasks that run code of the builder: the init() the constructor starts
\* without awaiting it, the init() the orchestrator awaits, and the callers of
\* buildArbitrageTransaction (executeOpportunity).
InitTasks == {"ctor", "init"}
Execs == {"e1", "e2"}
BuilderTasks == InitTasks \cup Execs

\* The pending count the wallet may have when the builder is created.
StartCounts == {0, 1}

\* What provider.getFeeData().gasPrice may report.
BaseFees == {0, 490}

\* What eth_feeHistory may answer: an error, or rewards with this median.
FeeHistories ==
    {[ok |-> FALSE, median |-> 0]} \cup [ok : {TRUE}, median : {40}]

NoTx == [nonce |-> 0, maxFeePerGas |-> 0]

\* An entry of pendingTxs.  Its key is keccak256 of the signed transaction,
\* so two entries differ exactly when the signed fields differ.
Tracked(t, data) ==
    [nonce |-> t.nonce, maxFeePerGas |-> t.maxFeePerGas, data |-> data]

\* getOptimalPriorityFee: 120% of the median reward, at most 2 gwei; 1.5 gwei
\* when the fee history cannot be read.
GetOptimalPriorityFee(h) ==
    IF h.ok THEN Min((h.median * 120) \div 100, ParseGwei(2)) ELSE 15

\* A getOptimalMaxFee that forgets the ceiling.
GetOptimalMaxFeeUnclamped(baseFee, h) == baseFee + GetOptimalPriorityFee(h)

\* getOptimalMaxFee: base fee plus priority fee, clamped to maxGasPriceGwei.
GetOptimalMaxFee(baseFee, h) ==
    LET maxFee == baseFee + GetOptimalPriorityFee(h)
        maxAllowed == ParseGwei(MaxGasPriceGwei)
    IN  IF maxFee > maxAllowed THEN maxAllowed ELSE maxFee

\* ConfigValidator.validateTransaction: the fee check (a fee of 0n is falsy
\* and skips it); `other` stands for the recipient, data and block gas limit
\* checks, which do not depend on the fee.
ValidateTransaction(t, other) ==
    /\ other
    /\ (t.maxFeePerGas # 0 => ~(t.maxFeePerGas > ParseGwei(MaxGasPriceGwei)))

\* updateNonce, first half: the provider is chosen and the pending count is
\* read from the chain.
UpdateNonceRead(t) ==
    /\ bpc[t] = "upd_req"
    /\ fetched' = [fetched EXCEPT ![t] = chainCount]
    /\ bpc' = [bpc EXCEPT ![t] = "upd_resp"]
    /\ UNCHANGED <<nonce, chainCount, tx, issued, sent>>
    /\ UNCHANGED <<pendingTxs, repl>>
    /\ BuilderOnly

\* updateNonce, second half: the answer arrives and overwrites this.nonce.
UpdateNonceAssign(t) ==
    /\ bpc[t] = "upd_resp"
    /\ nonce' = SomeNonce(fetched[t])
    /\ fetched' = [fetched EXCEPT ![t] = 0]
    /\ bpc' = [bpc EXCEPT ![t] = IF t \in Execs THEN "take" ELSE "done"]
    /\ UNCHANGED <<chainCount, tx, issued, sent>>
    /\ UNCHANGED <<pendingTxs, repl>>
    /\ BuilderOnly

\* The orchestrator calls init() on the builder it has just constructed.
InitCall ==
    /\ bpc["init"] = "idle"
    /\ bpc' = [bpc EXCEPT !["init"] = "upd_req"]
    /\ UNCHANGED <<nonce, chainCount, fetched, tx, issued, sent>>
    /\ UNCHANGED <<pendingTxs, repl>>
    /\ BuilderOnly

\* getNonce after its test of this.nonce: hand out the counter, increment it.
TakeNonce(e) ==
    /\ tx' = [tx EXCEPT ![e] = [NoTx EXCEPT !.nonce = nonce.value]]
    /\ issued' = Append(issued, nonce.value)
    /\ nonce' = SomeNonce(nonce.value + 1)

\* buildArbitrageTransaction up to its first await: getNonce is entered, and
\* when this.nonce is null it first awaits updateNonce.
BuildStart(e) ==
    /\ bpc[e] = "idle"
    /\ Len(issued) < MaxBuilds
    /\ IF nonce.set
         THEN /\ TakeNonce(e)
              /\ bpc' = [bpc EXCEPT ![e] = "fee"]
         ELSE /\ bpc' = [bpc EXCEPT ![e] = "upd_req"]
              /\ UNCHANGED <<nonce, tx, issued>>
    /\ UNCHANGED <<chainCount, fetched, sent>>
    /\ UNCHANGED <<pendingTxs, repl>>
    /\ BuilderOnly

\* getNonce resumes after the updateNonce it awaited.
GetNonceResume(e) ==
    /\ bpc[e] = "take"
    /\ TakeNonce(e)
    /\ bpc' = [bpc EXCEPT ![e] = "fee"]
    /\ UNCHANGED <<chainCount, fetched, sent>>
    /\ UNCHANGED <<pendingTxs, repl>>
    /\ BuilderOnly

\* estimateGas, getOptimalMaxFee and getOptimalPriorityFee answer, and the
\* transaction is signed and recorded in pendingTxs.
BuildFinish(e) ==
    /\ bpc[e] = "fee"
    /\ \E baseFee \in BaseFees, h \in FeeHistories :
         tx' = [tx EXCEPT ![e] = [nonce |-> tx[e].nonce,
                                  maxFeePerGas |-> GetOptimalMaxFee(baseFee, h)]]
    /\ pendingTxs' = pendingTxs \cup {Tracked(tx'[e], "arb")}
    /\ bpc' = [bpc EXCEPT ![e] = "validate"]
    /\ UNCHANGED <<nonce, chainCount, fetched, issued, sent, repl>>
    /\ BuilderOnly

\* A provider call of the build rejects (updateNonce, fee data) or signing
\* throws: the build fails and executeOpportunity's catch ends the execution.
BuildFail(e) ==
    /\ bpc[e] \in {"upd_req", "upd_resp", "fee"}
    /\ bpc' = [bpc EXCEPT ![e] = "idle"]
    /\ tx' = [tx EXCEPT ![e] = NoTx]
    /\ fetched' = [fetched EXCEPT ![e] = 0]
    /\ UNCHANGED <<nonce, chainCount, issued, sent>>
    /\ UNCHANGED <<pendingTxs, repl>>
    /\ BuilderOnly

\* executeOpportunity step 2: validateTransaction; an invalid transaction is
\* thrown away.
ValidateStep(e) ==
    /\ bpc[e] = "validate"
    /\ \E other \in BOOLEAN :
         IF ValidateTransaction(tx[e], other)
           THEN /\ bpc' = [bpc EXCEPT ![e] = "send"]
                /\ tx' = tx
           ELSE /\ bpc' = [bpc EXCEPT ![e] = "idle"]
                /\ tx' = [tx EXCEPT ![e] = NoTx]
    /\ UNCHANGED <<nonce, chainCount, fetched, issued, sent>>
    /\ UNCHANGED <<pendingTxs, repl>>
    /\ BuilderOnly

\* sendTransaction: the node accepts the transaction; the wallet's pending
\* count grows when the transaction carries the next expected nonce.
SendAccepted(e) ==
    /\ bpc[e] = "send"
    /\ tx[e].nonce >= chainCount
    /\ sent' = Append(sent, tx[e])
    /\ chainCount' = IF tx[e].nonce = chainCount THEN chainCount + 1 ELSE chainCount
    /\ bpc' = [bpc EXCEPT ![e] = "idle"]
    /\ tx' = [tx EXCEPT ![e] = NoTx]
    /\ UNCHANGED <<nonce, fetched, issued>>
    /\ UNCHANGED <<pendingTxs, repl>>
    /\ BuilderOnly

\* sendTransaction: the broadcast is rejected (nonce too low, or a transport
\* error) and the error is thrown to executeOpportunity.
SendRejected(e) ==
    /\ bpc[e] = "send"
    /\ bpc' = [bpc EXCEPT ![e] = "idle"]
    /\ tx' = [tx EXCEPT ![e] = NoTx]
    /\ UNCHANGED <<nonce, chainCount, fetched, issued, sent>>
    /\ UNCHANGED <<pendingTxs, repl>>
    /\ BuilderOnly

\* ---- cancelTransaction / speedUpTransaction ----

ReplaceKinds == {"cancel", "speedUp"}

\* What a caller may pass as newGasPriceMultiplier: a JavaScript Number (the
\* defaults 1.2 and 1.5, here in tenths) or a BigInt.
Multipliers == [bigint : {FALSE}, n : {12, 15}] \cup [bigint : {TRUE}, n : {1, 2}]

\* oldTx.txData.maxFeePerGas * newGasPriceMultiplier.  The tracked fee is a
\* BigInt (getOptimalMaxFee), and a BigInt times a Number throws a TypeError.
Scale(fee, m) ==
    IF m.bigint THEN [ok |-> TRUE, value |-> fee * m.n]
    ELSE [ok |-> FALSE, value |-> 0]

\* A hash that pendingTxs does not hold.
UnknownTx == [nonce |-> 0, maxFeePerGas |-> 0, data |-> "unknown"]

NoRepl == [pc |-> "idle", kind |-> "none", old |-> UnknownTx, new |-> UnknownTx,
           error |-> "none", calls |-> 0]

\* cancelTx: a transfer of 0 to the wallet itself with the old nonce;
\* spedUpTx: the old transaction; both with the fee scaled.
Replacement(kind, old, fee) ==
    [nonce |-> old.nonce, maxFeePerGas |-> fee,
     data |-> IF kind = "cancel" THEN "0x" ELSE old.data]

\* cancelTransaction / speedUpTransaction up to the await of signTransaction:
\* an unknown hash throws 'Transaction not found', a Number multiplier throws
\* the TypeError of the product.
ReplaceCall ==
    /\ repl.pc \in {"idle", "returned", "failed"}
    /\ repl.calls < MaxReplacements
    /\ \E kind \in ReplaceKinds, old \in pendingTxs \cup {UnknownTx},
          m \in Multipliers :
         LET fee == Scale(old.maxFeePerGas, m)
             call == [NoRepl EXCEPT !.kind = kind, !.old = old,
                                    !.calls = repl.calls + 1]
         IN  repl' =
               IF old \notin pendingTxs
                 THEN [call EXCEPT !.pc = "failed",
                                   !.error = "Transaction not found"]
               ELSE IF ~fee.ok
                 THEN [call EXCEPT !.pc = "failed", !.error = "TypeError"]
               ELSE [call EXCEPT !.pc = "sign",
                                 !.new = Replacement(kind, old, fee.value)]
    /\ UNCHANGED <<nonce, chainCount, bpc, fetched, tx, issued, sent, pendingTxs>>
    /\ BuilderOnly

\* wallet.signTransaction answers; sendTransaction is entered.
ReplaceSigned ==
    /\ repl.pc = "sign"
    /\ repl' = [repl EXCEPT !.pc = "send"]
    /\ UNCHANGED <<nonce, chainCount, bpc, fetched, tx, issued, sent, pendingTxs>>
    /\ BuilderOnly

\* The node accepts the replacement: cancelTransaction deletes the old entry,
\* speedUpTransaction sets an entry under the hash of the new transaction.
ReplaceAccepted ==
    /\ repl.pc = "send"
    /\ pendingTxs' = IF repl.kind = "cancel"
                       THEN pendingTxs \ {repl.old}
                       ELSE pendingTxs \cup {repl.new}
    /\ repl' = [repl EXCEPT !.pc = "returned"]
    /\ UNCHANGED <<nonce, chainCount, bpc, fetched, tx, issued, sent>>
    /\ BuilderOnly

\* Signing throws or the broadcast is rejected: the error is thrown to the
\* caller before pendingTxs is touched.
ReplaceRejected ==
    /\ repl.pc \in {"sign", "send"}
    /\ repl' = [repl EXCEPT !.pc = "failed",
                            !.error = "Failed to broadcast transaction"]
    /\ UNCHANGED <<nonce, chainCount, bpc, fetched, tx, issued, sent, pendingTxs>>
    /\ BuilderOnly

BuilderInit ==
    /\ nonce = NoNonce
    /\ chainCount \in StartCounts
    /\ bpc = [t \in BuilderTasks |->
                IF t = "ctor" THEN "upd_req" ELSE "idle"]
    /\ fetched = [t \in BuilderTasks |-> 0]
    /\ tx = [e \in Execs |-> NoTx]
    /\ issued = <<>>
    /\ sent = <<>>
    /\ pendingTxs = {}
    /\ repl = NoRepl

BuilderNext ==
    \/ \E t \in BuilderTasks : UpdateNonceRead(t)
    \/ \E t \in BuilderTasks : UpdateNonceAssign(t)
    \/ InitCall
    \/ \E e \in Execs : BuildStart(e)
    \/ \E e \in Execs : GetNonceResume(e)
    \/ \E e \in Execs : BuildFinish(e)
    \/ \E e \in Execs : BuildFail(e)
    \/ \E e \in Execs : ValidateStep(e)
    \/ \E e \in Execs : SendAccepted(e)
    \/ \E e \in Execs : SendRejected(e)


-----------------------------------------------------------------------------
(***************************************************************************)
(* BaseAlphaArbBot: start, the scan loop, evaluation, execution, stop and  *)
(* emergency stop.  The bot is modelled from the state initialize() leaves *)
(* (isInitialized = true).                                                  *)
(***************************************************************************)

\* Every call of start() is a task of its own; two are enough to have a
\* second start() while the loop of the first is still alive.
Loops == {"l1", "l2"}

\* What a gate of the candidate pipeline may answer.
GateResults == {"ok", "veto", "throw"}

\* simulated.netProfitUSD, in USD: just below and just at the margin.
SimProfits ==
    {(3 * MinProfitThresholdUSD - 1) \div 2, (3 * MinProfitThresholdUSD + 1) \div 2}

\* The gates of the candidate pipeline: the path checks of the validator,
\* the accountant, the MEV guard, the gas oracle and the simulator.
Gates == {"validate", "profit", "mev", "gas", "simulate"}

\* opportunity.netProfitUSD as scanCycle finds it on the object the scanner
\* returned.  The objects OpportunityScanner.scan() builds carry
\* expectedProfit, profitPercent and simulationResult, and no netProfitUSD.
NoField == [set |-> FALSE, value |-> 0]

ListedProfits ==
    {NoField} \cup [set : {TRUE},
                    value : {MinProfitThresholdUSD - 1, MinProfitThresholdUSD}]

\* A candidate: its netProfitUSD field, the answers it gets from the gates,
\* and the net profit the simulation reports.  The pipeline stops at the
\* first gate that does not answer ok, so answers with one such gate cover
\* it.
Outcomes ==
    {o \in [listed : ListedProfits,
            validate : GateResults, profit : GateResults, mev : GateResults,
            gas : GateResults, simulate : GateResults, netProfitUSD : SimProfits] :
        Cardinality({g \in Gates : o[g] # "ok"}) <= 1}

\* validateOpportunity: the path checks, then
\* !opportunity.netProfitUSD || opportunity.netProfitUSD < minProfitThresholdUSD.
ValidateOpportunity(o) ==
    IF o.validate # "ok" THEN o.validate
    ELSE IF ~o.listed.set \/ o.listed.value = 0
              \/ o.listed.value < MinProfitThresholdUSD
      THEN "veto"
    ELSE "ok"

NoGates == [trace |-> <<>>, netProfitUSD |-> 0]

\* opportunity.netProfitUSD < config.minProfitThresholdUSD * 1.5
Borderline(netProfitUSD) == 2 * netProfitUSD < 3 * MinProfitThresholdUSD

\* evaluateOpportunity that does not consult the MEV guard.
EvaluateOpportunityNoMev(o) ==
    IF o.profit # "ok"
      THEN [execute |-> FALSE, trace |-> <<<<"profit", o.profit>>>>]
    ELSE IF o.gas # "ok"
      THEN [execute |-> FALSE, trace |-> <<<<"profit", "ok">>, <<"gas", o.gas>>>>]
    ELSE IF o.simulate # "ok"
      THEN [execute |-> FALSE,
            trace |-> <<<<"profit", "ok">>, <<"gas", "ok">>,
                        <<"simulate", o.simulate>>>>]
    ELSE [execute |-> ~Borderline(o.netProfitUSD),
          trace |-> <<<<"profit", "ok">>, <<"gas", "ok">>, <<"simulate", "ok">>,
                      <<"margin", IF Borderline(o.netProfitUSD) THEN "veto" ELSE "ok">>>>]

\* evaluateOpportunity: accountant, MEV guard, gas price, simulation, margin;
\* the first gate that vetoes or throws ends the evaluation with false.  The
\* trace lists the gates consulted, in order, with what each answered.
EvaluateOpportunity(o) ==
    IF o.profit # "ok"
      THEN [execute |-> FALSE, trace |-> <<<<"profit", o.profit>>>>]
    ELSE IF o.mev # "ok"
      THEN [execute |-> FALSE, trace |-> <<<<"profit", "ok">>, <<"mev", o.mev>>>>]
    ELSE IF o.gas # "ok"
      THEN [execute |-> FALSE,
            trace |-> <<<<"profit", "ok">>, <<"mev", "ok">>, <<"gas", o.gas>>>>]
    ELSE IF o.simulate # "ok"
      THEN [execute |-> FALSE,
            trace |-> <<<<"profit", "ok">>, <<"mev", "ok">>, <<"gas", "ok">>,
                        <<"simulate", o.simulate>>>>]
    ELSE [execute |-> ~Borderline(o.netProfitUSD),
          trace |-> <<<<"profit", "ok">>, <<"mev", "ok">>, <<"gas", "ok">>,
                      <<"simulate", "ok">>,
                      <<"margin", IF Borderline(o.netProfitUSD) THEN "veto" ELSE "ok">>>>]

\* The body of scanCycle's candidate loop: shape validation, then
\* evaluateOpportunity; an invalid candidate or an exception skips it.
ProcessCandidate(o) ==
    IF ValidateOpportunity(o) # "ok"
      THEN [execute |-> FALSE, trace |-> <<<<"validate", ValidateOpportunity(o)>>>>,
            netProfitUSD |-> o.netProfitUSD]
      ELSE LET r == EvaluateOpportunity(o)
           IN  [execute |-> r.execute,
                trace |-> <<<<"validate", "ok">>>> \o r.trace,
                netProfitUSD |-> o.netProfitUSD]

Exited == hpc = "exited"

\* cleanup(): the intervals are cleared and pendingTransactions is emptied.
Cleanup == pendingTransactions' = {}

\* The positions at which a task is inside scanCycle.
CyclePcs == {"scanning", "gas_sleep", "evaluating", "executing", "confirming",
             "exec_ok_alert", "build_alert", "exec_alert"}

\* The alert a start() task at position p has requested and is awaiting.
AlertAt(p) ==
    CASE p = "starting"      -> "Bot Started"
      [] p = "refused"       -> "Emergency Shutdown"
      [] p = "err_alert"     -> "Scan Cycle Error"
      [] p = "crit_alert"    -> "Approaching Emergency Shutdown"
      [] p = "estopping"     -> "Emergency Stop"
      [] p = "exec_ok_alert" -> "Opportunity Executed"
      [] p = "build_alert"   -> "Execution Failed"
      [] p = "exec_alert"    -> "Execution Failed"
      [] OTHER               -> "none"

\* start(): returns when the bot runs already; refuses, with a critical alert,
\* in emergency shutdown; else sets isRunning and awaits the 'Bot Started'
\* alert.
StartCall(l) ==
    /\ ~Exited
    /\ lpc[l] = "idle"
    /\ IF isRunning
         THEN UNCHANGED <<isRunning, lpc>>
       ELSE IF emergencyShutdown
         THEN /\ lpc' = [lpc EXCEPT ![l] = "refused"]
              /\ UNCHANGED isRunning
       ELSE /\ isRunning' = TRUE
            /\ lpc' = [lpc EXCEPT ![l] = "starting"]
    /\ UNCHANGED <<emergencyShutdown, consecutiveErrors, pendingTransactions,
                   cands, gates, hpc, spc, stopElapsed>>
    /\ BotOnly

\* start() returns after the 'Emergency Shutdown' alert.
StartRefused(l) ==
    /\ ~Exited
    /\ lpc[l] = "refused"
    /\ lpc' = [lpc EXCEPT ![l] = "idle"]
    /\ UNCHANGED <<isRunning, emergencyShutdown, consecutiveErrors,
                   pendingTransactions, cands, gates,
                   hpc, spc, stopElapsed>>
    /\ BotOnly

\* The loop condition, evaluated when the await before it completes (the
\* start alert, the sleep between cycles, the backoff); a true condition
\* enters scanCycle, which awaits the gas check.
LoopResume(l) ==
    /\ ~Exited
    /\ lpc[l] \in {"starting", "sleeping", "backoff"}
    /\ lpc' = [lpc EXCEPT ![l] =
                 IF isRunning /\ ~emergencyShutdown THEN "scanning" ELSE "idle"]
    /\ UNCHANGED <<isRunning, emergencyShutdown, consecutiveErrors,
                   pendingTransactions, cands, gates,
                   hpc, spc, stopElapsed>>
    /\ BotOnly

\* scanCycle returned: the cycle counts as successful, the error counter is
\* reset and the task sleeps.
EndCycle(l) ==
    /\ consecutiveErrors' = 0
    /\ lpc' = [lpc EXCEPT ![l] = "sleeping"]

\* shouldWaitForBetterGas says wait: scanCycle sleeps and returns.
ScanWait(l) ==
    /\ ~Exited
    /\ lpc[l] = "scanning"
    /\ lpc' = [lpc EXCEPT ![l] = "gas_sleep"]
    /\ UNCHANGED <<isRunning, emergencyShutdown, consecutiveErrors,
                   pendingTransactions, cands, gates,
                   hpc, spc, stopElapsed>>
    /\ BotOnly

ScanWaitDone(l) ==
    /\ ~Exited
    /\ lpc[l] = "gas_sleep"
    /\ EndCycle(l)
    /\ UNCHANGED <<isRunning, emergencyShutdown, pendingTransactions, cands,
                   gates, hpc, spc, stopElapsed>>
    /\ BotOnly

\* The scanner answers with n opportunities; the best TopN are processed.
ScanFound(l) ==
    /\ ~Exited
    /\ lpc[l] = "scanning"
    /\ \E n \in 0..MaxCands :
         IF n > 0
           THEN /\ cands' = [cands EXCEPT ![l] = Min(n, TopN)]
                /\ lpc' = [lpc EXCEPT ![l] = "evaluating"]
                /\ UNCHANGED consecutiveErrors
           ELSE /\ EndCycle(l)
                /\ UNCHANGED cands
    /\ UNCHANGED <<isRunning, emergencyShutdown, pendingTransactions, gates, hpc, spc, stopElapsed>>
    /\ BotOnly

\* A critical warning that comes one error later.
AfterErrorAlertLate(l, errors) ==
    lpc' = [lpc EXCEPT ![l] =
              IF errors >= MaxConsecutiveErrors - 1
                THEN "crit_alert" ELSE "handled"]

\* handleCycleError's second alert: the critical warning when the counter is
\* within two of the maximum.
AfterErrorAlert(l, errors) ==
    lpc' = [lpc EXCEPT ![l] =
              IF errors >= MaxConsecutiveErrors - 2
                THEN "crit_alert" ELSE "handled"]

\* scanCycle throws.  handleCycleError up to its first await: the counter is
\* incremented, and the first error of a series requests the 'Scan Cycle
\* Error' alert.
ScanFail(l) ==
    /\ ~Exited
    /\ lpc[l] = "scanning"
    /\ consecutiveErrors' = consecutiveErrors + 1
    /\ IF consecutiveErrors' = 1
         THEN lpc' = [lpc EXCEPT ![l] = "err_alert"]
         ELSE AfterErrorAlert(l, consecutiveErrors + 1)
    /\ UNCHANGED <<isRunning, emergencyShutdown, pendingTransactions, cands,
                   gates, hpc, spc, stopElapsed>>
    /\ BotOnly

\* handleCycleError resumes after the error alert.
ErrAlertDone(l) ==
    /\ ~Exited
    /\ lpc[l] = "err_alert"
    /\ AfterErrorAlert(l, consecutiveErrors)
    /\ UNCHANGED <<isRunning, emergencyShutdown, consecutiveErrors,
                   pendingTransactions, cands, gates,
                   hpc, spc, stopElapsed>>
    /\ BotOnly

\* emergencyStop up to its await of the critical 'Emergency Stop' alert: both
\* flags are set.
EmergencyStopEnter ==
    /\ isRunning' = FALSE
    /\ emergencyShutdown' = TRUE

\* A catch block that goes on to the backoff whatever the counter says.
HandleDoneNoStop(l) ==
    /\ ~Exited
    /\ lpc[l] \in {"crit_alert", "handled"}
    /\ lpc' = [lpc EXCEPT ![l] = "backoff"]
    /\ UNCHANGED <<isRunning, emergencyShutdown, consecutiveErrors,
                   pendingTransactions, cands, gates,
                   hpc, spc, stopElapsed>>
    /\ BotOnly

\* The loop's catch block after handleCycleError: emergency stop at the
\* maximum, else the backoff sleep.
HandleDone(l) ==
    /\ ~Exited
    /\ lpc[l] \in {"crit_alert", "handled"}
    /\ IF consecutiveErrors >= MaxConsecutiveErrors
         THEN /\ EmergencyStopEnter
              /\ lpc' = [lpc EXCEPT ![l] = "estopping"]
         ELSE /\ lpc' = [lpc EXCEPT ![l] = "backoff"]
              /\ UNCHANGED <<isRunning, emergencyShutdown>>
    /\ UNCHANGED <<consecutiveErrors, pendingTransactions, cands, gates, hpc, spc, stopElapsed>>
    /\ BotOnly

\* emergencyStop after its alert: cleanup(); the loop breaks and start()
\* returns.
EmergencyStopDone(l) ==
    /\ ~Exited
    /\ lpc[l] = "estopping"
    /\ Cleanup
    /\ lpc' = [lpc EXCEPT ![l] = "idle"]
    /\ UNCHANGED <<isRunning, emergencyShutdown, consecutiveErrors, cands,
                   gates, hpc, spc, stopElapsed>>
    /\ BotOnly

\* The candidate loop goes on after a candidate: the next candidate, or the
\* end of scanCycle when none is left.
NextCandidate(l) ==
    IF cands[l] > 1
      THEN /\ cands' = [cands EXCEPT ![l] = cands[l] - 1]
           /\ lpc' = [lpc EXCEPT ![l] = "evaluating"]
           /\ UNCHANGED consecutiveErrors
      ELSE /\ cands' = [cands EXCEPT ![l] = 0]
           /\ EndCycle(l)

\* One candidate is validated and evaluated; executeOpportunity is entered
\* for it when evaluateOpportunity answers true.
Evaluate(l) ==
    /\ ~Exited
    /\ lpc[l] = "evaluating"
    /\ \E o \in Outcomes :
         LET r == ProcessCandidate(o)
         IN  IF r.execute
               THEN /\ gates' = [gates EXCEPT ![l] =
                                   [trace |-> r.trace,
                                    netProfitUSD |-> r.netProfitUSD]]
                    /\ lpc' = [lpc EXCEPT ![l] = "executing"]
                    /\ UNCHANGED <<cands, consecutiveErrors>>
               ELSE /\ NextCandidate(l)
                    /\ UNCHANGED gates
    /\ UNCHANGED <<isRunning, emergencyShutdown, pendingTransactions, hpc, spc, stopElapsed>>
    /\ BotOnly

\* executeOpportunity's catch after a broadcast failure, a revert or a
\* confirmation timeout: the 'Execution Failed' alert is requested and
\* success: false is returned after it.
ExecutionFailed(l) ==
    lpc' = [lpc EXCEPT ![l] = "exec_alert"]

\* The build throws, or validateTransaction finds the transaction invalid:
\* executeOpportunity's catch, with nothing sent.
ExecBuildFail(l) ==
    /\ ~Exited
    /\ lpc[l] = "executing"
    /\ lpc' = [lpc EXCEPT ![l] = "build_alert"]
    /\ UNCHANGED <<isRunning, emergencyShutdown, consecutiveErrors,
                   pendingTransactions, cands, gates,
                   hpc, spc, stopElapsed>>
    /\ BotOnly

\* sendTransaction throws: the broadcast failed.
ExecSendFail(l) ==
    /\ ~Exited
    /\ lpc[l] = "executing"
    /\ ExecutionFailed(l)
    /\ UNCHANGED <<isRunning, emergencyShutdown, consecutiveErrors,
                   pendingTransactions, cands, gates, hpc, spc,
                   stopElapsed>>
    /\ BotOnly

\* The transaction is built, validated and broadcast; it is recorded in
\* pendingTransactions and the task waits for its receipt.
ExecSend(l) ==
    /\ ~Exited
    /\ lpc[l] = "executing"
    /\ pendingTransactions' = pendingTransactions \cup {l}
    /\ lpc' = [lpc EXCEPT ![l] = "confirming"]
    /\ UNCHANGED <<isRunning, emergencyShutdown, consecutiveErrors, cands,
                   gates, hpc, spc, stopElapsed>>
    /\ BotOnly

\* The receipt arrives with status 1: counters, metrics and the success alert.
ConfirmSuccess(l) ==
    /\ ~Exited
    /\ lpc[l] = "confirming"
    /\ lpc' = [lpc EXCEPT ![l] = "exec_ok_alert"]
    /\ UNCHANGED <<isRunning, emergencyShutdown, consecutiveErrors,
                   pendingTransactions, cands, gates,
                   hpc, spc, stopElapsed>>
    /\ BotOnly

\* The receipt says reverted.
ConfirmReverted(l) ==
    /\ ~Exited
    /\ lpc[l] = "confirming"
    /\ ExecutionFailed(l)
    /\ UNCHANGED <<isRunning, emergencyShutdown, consecutiveErrors,
                   pendingTransactions, cands, gates, hpc, spc,
                   stopElapsed>>
    /\ BotOnly

\* waitForTransaction gives up after 60 s.
ConfirmTimeout(l) ==
    /\ ~Exited
    /\ lpc[l] = "confirming"
    /\ ExecutionFailed(l)
    /\ UNCHANGED <<isRunning, emergencyShutdown, consecutiveErrors,
                   pendingTransactions, cands, gates, hpc, spc,
                   stopElapsed>>
    /\ BotOnly

\* executeOpportunity returns success: its finally forgets the pending
\* transaction, and scanCycle breaks out of the candidate loop.
ExecReturnSuccess(l) ==
    /\ ~Exited
    /\ lpc[l] = "exec_ok_alert"
    /\ pendingTransactions' = pendingTransactions \ {l}
    /\ gates' = [gates EXCEPT ![l] = NoGates]
    /\ cands' = [cands EXCEPT ![l] = 0]
    /\ EndCycle(l)
    /\ UNCHANGED <<isRunning, emergencyShutdown, hpc, spc,
                   stopElapsed>>
    /\ BotOnly

\* executeOpportunity returns success: false; its finally forgets the pending
\* transaction, and the candidate loop goes on.
ExecReturnFailure(l) ==
    /\ ~Exited
    /\ lpc[l] \in {"build_alert", "exec_alert"}
    /\ pendingTransactions' = pendingTransactions \ {l}
    /\ gates' = [gates EXCEPT ![l] = NoGates]
    /\ NextCandidate(l)
    /\ UNCHANGED <<isRunning, emergencyShutdown, hpc, spc,
                   stopElapsed>>
    /\ BotOnly

\* An uncaught exception or an unhandled rejection reaches the process-level
\* handler, which first awaits the critical error alert.
Crash ==
    /\ hpc = "idle"
    /\ hpc' = "alerting"
    /\ UNCHANGED <<isRunning, emergencyShutdown, consecutiveErrors,
                   pendingTransactions, lpc, cands, gates, spc, stopElapsed>>
    /\ BotOnly

\* The handler enters emergencyStop.
HandlerEmergencyStop ==
    /\ hpc = "alerting"
    /\ EmergencyStopEnter
    /\ hpc' = "estopping"
    /\ UNCHANGED <<consecutiveErrors, pendingTransactions, lpc, cands, gates, spc, stopElapsed>>
    /\ BotOnly

\* emergencyStop's alert is through: cleanup(), then process.exit(1), which
\* ends every task of the process.
HandlerExit ==
    /\ hpc = "estopping"
    /\ Cleanup
    /\ hpc' = "exited"
    /\ lpc' = [l \in Loops |-> "idle"]
    /\ cands' = [l \in Loops |-> 0]
    /\ gates' = [l \in Loops |-> NoGates]
    /\ spc' = "idle"
    /\ stopElapsed' = 0
    /\ UNCHANGED <<isRunning, emergencyShutdown, consecutiveErrors>>
    /\ BotOnly

\* stop(graceful): without graceful, cleanup() at once; else the wait for
\* pending transactions in sleeps of 5 s.  The 'Bot Stopped' alert after the
\* wait has level 'info', which shouldSendToChannel passes to no channel:
\* sendAlert awaits no channel, and stop() goes on to cleanup() and returns
\* before any other task runs.
StopCall ==
    /\ ~Exited
    /\ spc \in {"idle", "stopped"}
    /\ isRunning' = FALSE
    /\ \E graceful \in BOOLEAN :
         IF ~graceful
           THEN /\ Cleanup
                /\ spc' = "idle"
         ELSE IF pendingTransactions # {}
           THEN /\ spc' = "waiting"
                /\ UNCHANGED pendingTransactions
         ELSE /\ Cleanup
              /\ spc' = "stopped"
    /\ stopElapsed' = 0
    /\ UNCHANGED <<emergencyShutdown, consecutiveErrors, lpc, cands, gates, hpc>>
    /\ BotOnly

\* stop() wakes from one 5 s sleep of its wait for pending transactions and
\* evaluates the loop condition again.
StopWake ==
    /\ ~Exited
    /\ spc = "waiting"
    /\ IF pendingTransactions # {} /\ stopElapsed + StopSleep < MaxWaitTime
       THEN /\ stopElapsed' = stopElapsed + StopSleep
            /\ UNCHANGED <<spc, pendingTransactions>>
       ELSE /\ Cleanup
            /\ spc' = "stopped"
            /\ stopElapsed' = 0
    /\ UNCHANGED <<isRunning, emergencyShutdown, consecutiveErrors,
                   lpc, cands, gates, hpc>>
    /\ BotOnly

BotInit ==
    /\ isRunning = FALSE
    /\ emergencyShutdown = FALSE
    /\ consecutiveErrors = 0
    /\ pendingTransactions = {}
    /\ lpc = [l \in Loops |-> "idle"]
    /\ cands = [l \in Loops |-> 0]
    /\ gates = [l \in Loops |-> NoGates]
    /\ hpc = "idle"
    /\ spc = "idle"
    /\ stopElapsed = 0

BotNext ==
    \/ \E l \in Loops : StartCall(l)
    \/ \E l \in Loops : StartRefused(l)
    \/ \E l \in Loops : LoopResume(l)
    \/ \E l \in Loops : ScanWait(l)
    \/ \E l \in Loops : ScanWaitDone(l)
    \/ \E l \in Loops : ScanFound(l)
    \/ \E l \in Loops : ScanFail(l)
    \/ \E l \in Loops : ErrAlertDone(l)
    \/ \E l \in Loops : HandleDone(l)
    \/ \E l \in Loops : EmergencyStopDone(l)
    \/ \E l \in Loops : Evaluate(l)
    \/ \E l \in Loops : ExecBuildFail(l)
    \/ \E l \in Loops : ExecSendFail(l)
    \/ \E l \in Loops : ExecSend(l)
    \/ \E l \in Loops : ConfirmSuccess(l)
    \/ \E l \in Loops : ConfirmReverted(l)
    \/ \E l \in Loops : ConfirmTimeout(l)
    \/ \E l \in Loops : ExecReturnSuccess(l)
    \/ \E l \in Loops : ExecReturnFailure(l)
    \/ Crash
    \/ HandlerEmergencyStop
    \/ HandlerExit
    \/ StopCall
    \/ StopWake

-----------------------------------------------------------------------------
(***************************************************************************)
(* RPCManager: endpoint selection, failure counting, health probes.        *)
(***************************************************************************)

Nodes == 0..(NumNodes - 1)

AnyHealthy(h) == \E m \in Nodes : h[m]

\* this.nodes.find(n => n.isHealthy) || this.nodes[0]
FindHealthyOrFirst(h) ==
    IF AnyHealthy(h)
      THEN CHOOSE m \in Nodes : h[m] /\ \A k \in Nodes : h[k] => m <= k
      ELSE 0

\* A selection that hands out the endpoint under the cursor, healthy or not.
GetProviderNoSkip(h, c, attempts) ==
    [node |-> c, cursor |-> (c + 1) % NumNodes, visits |-> attempts + 1,
     fallback |-> FALSE]

\* The loop of getHealthyProvider, entered with health map h, cursor c and
\* `attempts` endpoints visited: the endpoint under the cursor is taken and the
\* cursor advanced; a healthy endpoint is returned, and after the last
\* endpoint the fallback is.
RECURSIVE GetHealthyProvider(_, _, _)
GetHealthyProvider(h, c, attempts) ==
    LET next == (c + 1) % NumNodes
    IN  IF h[c]
          THEN [node |-> c, cursor |-> next, visits |-> attempts + 1,
                fallback |-> FALSE]
        ELSE IF attempts + 1 = NumNodes
          THEN [node |-> FindHealthyOrFirst(h), cursor |-> next,
                visits |-> attempts + 1, fallback |-> TRUE]
        ELSE GetHealthyProvider(h, next, attempts + 1)

Pending(n) == timers[n] + probes[n]

\* The sum of a counter over the endpoints of S.
Total(f, S) ==
    LET RECURSIVE Sum(_)
        Sum(T) == IF T = {} THEN 0
                  ELSE LET x == CHOOSE y \in T : TRUE IN f[x] + Sum(T \ {x})
    IN  Sum(S)

\* A caller takes a provider and uses it directly: only the cursor moves.
Select ==
    /\ currentIndex' = GetHealthyProvider(isHealthy, currentIndex, 0).cursor
    /\ UNCHANGED <<isHealthy, failureCount, inflight, timers, probes,
                   failStreak>>
    /\ RpcOnly

\* A caller takes a provider and starts a call on it through execute(fn).
Call ==
    /\ Total(inflight, Nodes) < MaxInflight
    /\ LET r == GetHealthyProvider(isHealthy, currentIndex, 0)
       IN  /\ currentIndex' = r.cursor
           /\ inflight' = [inflight EXCEPT ![r.node] = @ + 1]
    /\ UNCHANGED <<isHealthy, failureCount, timers, probes, failStreak>>
    /\ RpcOnly

\* executeWithLimiters: the call succeeds and failureCount is reset.
CallSucceed(n) ==
    /\ inflight[n] > 0
    /\ inflight' = [inflight EXCEPT ![n] = @ - 1]
    /\ failureCount' = [failureCount EXCEPT ![n] = 0]
    /\ failStreak' = [failStreak EXCEPT ![n] = 0]
    /\ UNCHANGED <<isHealthy, currentIndex, timers, probes>>
    /\ RpcOnly

\* A markUnhealthy that does nothing.
MarkNothing(n) ==
    UNCHANGED <<isHealthy, timers>>

\* markUnhealthy: the endpoint is unhealthy and a probe is scheduled for
\* unhealthyTimeoutMs later.
MarkUnhealthy(n) ==
    /\ isHealthy' = [isHealthy EXCEPT ![n] = FALSE]
    /\ timers' = [timers EXCEPT ![n] = @ + 1]

\* executeWithLimiters: the call fails; failureCount is incremented and at
\* UnhealthyAfter the endpoint is marked unhealthy.
CallFail(n) ==
    /\ inflight[n] > 0
    /\ failureCount[n] < MaxFailureCount
    /\ (failureCount[n] + 1 >= UnhealthyAfter => Total(timers, Nodes) + Total(probes, Nodes) < MaxPending)
    /\ inflight' = [inflight EXCEPT ![n] = @ - 1]
    /\ failureCount' = [failureCount EXCEPT ![n] = @ + 1]
    /\ failStreak' = [failStreak EXCEPT ![n] = @ + 1]
    /\ IF failureCount[n] + 1 >= UnhealthyAfter
         THEN MarkUnhealthy(n)
         ELSE UNCHANGED <<isHealthy, timers>>
    /\ UNCHANGED <<currentIndex, probes>>
    /\ RpcOnly

\* The same in a run that follows an endpoint past its restoration: the
\* probe has not reset failureCount, and the call fails.
CallFailRestored(n) ==
    /\ inflight[n] > 0
    /\ failureCount[n] < MaxRestoredFailureCount
    /\ (failureCount[n] + 1 >= UnhealthyAfter => Total(timers, Nodes) + Total(probes, Nodes) < MaxPending)
    /\ inflight' = [inflight EXCEPT ![n] = @ - 1]
    /\ failureCount' = [failureCount EXCEPT ![n] = @ + 1]
    /\ failStreak' = [failStreak EXCEPT ![n] = @ + 1]
    /\ IF failureCount[n] + 1 >= UnhealthyAfter
         THEN MarkUnhealthy(n)
         ELSE UNCHANGED <<isHealthy, timers>>
    /\ UNCHANGED <<currentIndex, probes>>
    /\ RpcOnly

\* A probe timer fires: checkNodeHealth starts and awaits getBlockNumber.
TimerFire(n) ==
    /\ timers[n] > 0
    /\ timers' = [timers EXCEPT ![n] = @ - 1]
    /\ probes' = [probes EXCEPT ![n] = @ + 1]
    /\ UNCHANGED <<isHealthy, failureCount, currentIndex, inflight, failStreak>>
    /\ RpcOnly

\* startHealthChecks: the interval finds the endpoint unhealthy and not
\* checked for healthCheckIntervalMs, and probes it.
IntervalProbe(n) ==
    /\ ~isHealthy[n]
    /\ Total(timers, Nodes) + Total(probes, Nodes) < MaxPending
    /\ probes' = [probes EXCEPT ![n] = @ + 1]
    /\ UNCHANGED <<isHealthy, failureCount, currentIndex, inflight, timers,
                   failStreak>>
    /\ RpcOnly

\* checkNodeHealth: getBlockNumber answers and the endpoint is healthy again.
ProbeSucceed(n) ==
    /\ probes[n] > 0
    /\ probes' = [probes EXCEPT ![n] = @ - 1]
    /\ isHealthy' = [isHealthy EXCEPT ![n] = TRUE]
    /\ UNCHANGED <<failureCount, currentIndex, inflight, timers, failStreak>>
    /\ RpcOnly

\* A failed probe that schedules no further probe.
ProbeFailNoReschedule(n) ==
    /\ probes[n] > 0
    /\ probes' = [probes EXCEPT ![n] = @ - 1]
    /\ isHealthy' = [isHealthy EXCEPT ![n] = FALSE]
    /\ UNCHANGED <<failureCount, currentIndex, inflight, timers, failStreak>>
    /\ RpcOnly

\* checkNodeHealth: getBlockNumber fails; the endpoint is unhealthy and the
\* next probe is scheduled.
ProbeFail(n) ==
    /\ probes[n] > 0
    /\ probes' = [probes EXCEPT ![n] = @ - 1]
    /\ isHealthy' = [isHealthy EXCEPT ![n] = FALSE]
    /\ timers' = [timers EXCEPT ![n] = @ + 1]
    /\ UNCHANGED <<failureCount, currentIndex, inflight, failStreak>>
    /\ RpcOnly

RpcInit ==
    /\ isHealthy = [n \in Nodes |-> TRUE]
    /\ failureCount = [n \in Nodes |-> 0]
    /\ currentIndex = 0
    /\ inflight = [n \in Nodes |-> 0]
    /\ timers = [n \in Nodes |-> 0]
    /\ probes = [n \in Nodes |-> 0]
    /\ failStreak = [n \in Nodes |-> 0]

RpcNext ==
    \/ Select
    \/ Call
    \/ \E n \in Nodes : CallSucceed(n)
    \/ \E n \in Nodes : CallFail(n)
    \/ \E n \in Nodes : TimerFire(n)
    \/ \E n \in Nodes : IntervalProbe(n)
    \/ \E n \in Nodes : ProbeSucceed(n)
    \/ \E n \in Nodes : ProbeFail(n)

\* The transport with calls that go on failing after a restoration.
RestoredNext ==
    \/ Select
    \/ Call
    \/ \E n \in Nodes : CallSucceed(n)
    \/ \E n \in Nodes : CallFailRestored(n)
    \/ \E n \in Nodes : TimerFire(n)
    \/ \E n \in Nodes : IntervalProbe(n)
    \/ \E n \in Nodes : ProbeSucceed(n)
    \/ \E n \in Nodes : ProbeFail(n)

-----------------------------------------------------------------------------
(***************************************************************************)
(* AlertingSystem (src/src/alerting.js).                                   *)
(*                                                                         *)
(* sendAlert reads Date.now() and the key's last alert time, returns       *)
(* 'Cooldown active' when the cooldown has not passed, and otherwise       *)
(* awaits the enabled channels of the level one after the other; only      *)
(* after the last channel it stores the time it read at the start.         *)
(* Times are in seconds (the code compares milliseconds with               *)
(* cooldown * 1000).                                                       *)
(***************************************************************************)

AlertTasks == {"a1", "a2"}

Levels == {"critical", "error", "warning", "info", "success"}

Titles == {"Cycle Error", "Opportunity Missed"}

Datas == {"null"}

\* `${level}:${title}:${JSON.stringify(data)}`
AlertKey(level, title, data) == <<level, title, data>>

AlertKeys == {AlertKey(l, t, d) : l \in Levels, t \in Titles, d \in Datas}

Channels == {"telegram", "discord", "slack", "email", "webhook"}

\* The channel configurations the environment variables can produce here.
EnabledSets == {{}, {"telegram"}, {"telegram", "slack"}}

GetCooldownForLevel(level) ==
    CASE level = "critical" -> 60
      [] level = "error" -> 300
      [] level = "warning" -> 900
      [] level = "info" -> 1800
      [] level = "success" -> 3600
      [] OTHER -> 300

ChannelLevels(channel) ==
    CASE channel = "telegram" -> {"critical", "error", "warning", "success"}
      [] channel = "discord" -> {"critical", "error", "warning"}
      [] channel = "slack" -> {"critical", "error"}
      [] channel = "email" -> {"critical"}
      [] channel = "webhook" -> {"critical", "error", "warning"}
      [] OTHER -> {}

ShouldSendToChannel(channel, level) == level \in ChannelLevels(channel)

\* The channels the loop of sendAlert awaits for an alert of this level.
ChannelsFor(level) ==
    {c \in enabled : ShouldSendToChannel(c, level)}

\* Date.now() at the start of the model: later than any cooldown after 0.
StartClock == GetCooldownForLevel("success")

\* The instants at which something happens: the start, and one cooldown of
\* every level after the start.
ClockValues == {StartClock} \cup {StartClock + GetCooldownForLevel(l) : l \in Levels}

NoCall == [pc |-> "idle", key |-> <<>>, now |-> 0, left |-> 0]

\* now - lastAlert < cooldown * 1000
CooldownActive(now, lastAlert, level) ==
    now - lastAlert < GetCooldownForLevel(level)

\* sendAlert from the read of Date.now() to its first await or its return.
CheckAndDispatch(t, key) ==
    LET level == key[1]
        now == clock
        lastAlert == alertCooldowns[key]
        n == Cardinality(ChannelsFor(level))
    IN  IF CooldownActive(now, lastAlert, level)
        THEN /\ acall' = [acall EXCEPT ![t] = NoCall]
             /\ UNCHANGED <<alertCooldowns, alertLog>>
        ELSE IF n = 0
        THEN /\ alertCooldowns' = [alertCooldowns EXCEPT ![key] = now]
             /\ acall' = [acall EXCEPT ![t] = NoCall]
             /\ alertLog' = Append(alertLog, [key |-> key, at |-> now, channels |-> 0])
        ELSE /\ acall' = [acall EXCEPT ![t] =
                    [pc |-> "sending", key |-> key, now |-> now, left |-> n]]
             /\ alertLog' = Append(alertLog, [key |-> key, at |-> now, channels |-> n])
             /\ UNCHANGED alertCooldowns

\* A task calls sendAlert(level, title, message, data).  The first call
\* runs initialize() and yields at its await.
SendAlertCall(t) ==
    /\ acall[t].pc = "idle"
    /\ Len(alertLog) < MaxAlerts
    /\ \E level \in Levels, title \in Titles, data \in Datas :
         LET key == AlertKey(level, title, data)
         IN  IF ~initialized
             THEN /\ initialized' = TRUE
                  /\ acall' = [acall EXCEPT ![t] =
                         [pc |-> "initializing", key |-> key, now |-> 0, left |-> 0]]
                  /\ UNCHANGED <<alertCooldowns, alertLog>>
             ELSE /\ CheckAndDispatch(t, key)
                  /\ UNCHANGED initialized
    /\ UNCHANGED <<clock, enabled>>
    /\ AlertOnly

\* The call resumes after `await this.initialize()`.
InitializeResume(t) ==
    /\ acall[t].pc = "initializing"
    /\ CheckAndDispatch(t, acall[t].key)
    /\ UNCHANGED <<clock, initialized, enabled>>
    /\ AlertOnly

\* A channel call settles (resolved or thrown: both are pushed to results);
\* after the last one the time read at the start is stored for the key.
ChannelDone(t) ==
    /\ acall[t].pc = "sending"
    /\ IF acall[t].left > 1
       THEN /\ acall' = [acall EXCEPT ![t].left = @ - 1]
            /\ UNCHANGED alertCooldowns
       ELSE /\ alertCooldowns' =
                   [alertCooldowns EXCEPT ![acall[t].key] = acall[t].now]
            /\ acall' = [acall EXCEPT ![t] = NoCall]
    /\ UNCHANGED <<clock, initialized, enabled, alertLog>>
    /\ AlertOnly

\* Time passes.
Tick ==
    /\ \E c \in ClockValues :
         /\ c > clock
         /\ clock' = c
    /\ UNCHANGED <<initialized, enabled, alertCooldowns, acall, alertLog>>
    /\ AlertOnly

\* No alert was sent yet: alertCooldowns.get(key) || 0 is 0 for every key.
AlertQuiet ==
    /\ clock = StartClock
    /\ initialized = FALSE
    /\ alertCooldowns = [k \in AlertKeys |-> 0]
    /\ acall = [t \in AlertTasks |-> NoCall]
    /\ alertLog = <<>>

AlertInit ==
    /\ AlertQuiet
    /\ enabled \in EnabledSets

AlertNext ==
    \/ \E t \in AlertTasks : SendAlertCall(t)
    \/ \E t \in AlertTasks : InitializeResume(t)
    \/ \E t \in AlertTasks : ChannelDone(t)
    \/ Tick

-----------------------------------------------------------------------------
(***************************************************************************)
(* The body of scanCycle's candidate loop, applied to one opportunity at a *)
(* time: validateOpportunity, evaluateOpportunity and the alert that       *)
(* evaluateOpportunity requests for a veto.                                *)
(***************************************************************************)

NoVerdict == [done |-> FALSE, execute |-> FALSE, trace |-> <<>>, alert |-> "none"]

\* The alert evaluateOpportunity requests before it returns false: the MEV
\* veto calls sendOpportunityMissed, the gas veto sendGasPriceAlert; the
\* other vetoes and the exceptions only log.
VetoAlert(trace) ==
    LET last == trace[Len(trace)]
    IN  IF last = <<"mev", "veto">> THEN "Opportunity Missed"
        ELSE IF last = <<"gas", "veto">> THEN "High Gas Price"
        ELSE "none"

\* One pass of the loop body over the opportunity.
ProcessOpportunity ==
    /\ ~verdict.done
    /\ LET r == ProcessCandidate(opp)
       IN  verdict' = [done |-> TRUE, execute |-> r.execute, trace |-> r.trace,
                       alert |-> VetoAlert(r.trace)]
    /\ UNCHANGED opp
    /\ CandOnly

\* The loop goes on to the next opportunity of the scan.
NextOpportunity ==
    /\ verdict.done
    /\ ~verdict.execute
    /\ opp' \in Outcomes
    /\ verdict' = NoVerdict
    /\ CandOnly

CandQuiet ==
    /\ opp = CHOOSE o \in Outcomes : TRUE
    /\ verdict = NoVerdict

CandInit ==
    /\ opp \in Outcomes
    /\ verdict = NoVerdict

CandNext ==
    \/ ProcessOpportunity
    \/ NextOpportunity

-----------------------------------------------------------------------------
(***************************************************************************)
(* OpportunityScanner.scan() (src/unnamed/part_001) with the pairs of      *)
(* ZScoreEngine.initializePairs (src/src/rateLimiter.js).                  *)
(*                                                                         *)
(* config.baseTokens is a list of address strings: validateTokens tests    *)
(* every entry with ethers.isAddress and initializePairs compares the      *)
(* entries with token.address.                                             *)
(***************************************************************************)

\* config.baseTokens, in order.
BaseTokens == <<"WETH", "USDC">>

BaseTokenSet == {BaseTokens[i] : i \in 1..Len(BaseTokens)}

\* The addresses of getTopMarketCapTokens, and of the tokens with liquidity.
TopTokens == {"USDC", "cbETH", "AERO"}

ActiveTokens == {"WETH", "USDC", "cbETH"}

Undefined == "undefined"

Null == [fromToken |-> "null", toToken |-> "null"]

\* baseToken.address and startToken.address, read on an entry of
\* config.baseTokens: a string has no property `address`.
AddressOf(entry) == Undefined

\* initializePairs: every pair of base tokens, and each of the first two
\* base tokens with every top token other than itself.
Pairs ==
    LET n == Len(BaseTokens)
        firstTwo == IF n < 2 THEN n ELSE 2
    IN  {[tokenA |-> BaseTokens[ij[1]], tokenB |-> BaseTokens[ij[2]]] :
            ij \in {q \in (1..n) \X (1..n) : q[1] < q[2]}}
        \cup
        UNION {{[tokenA |-> BaseTokens[i], tokenB |-> t] :
                   t \in TopTokens \ {BaseTokens[i]}} : i \in 1..firstTwo}

\* zScore.value as calculateZScore may report it.
ZScores == {0 - EntryThreshold, 0, EntryThreshold}

Abs(x) == IF x < 0 THEN 0 - x ELSE x

\* findOptimalPath: the best route as a hop, or null when no aggregator and
\* no router quotes the pair; no route exists for an undefined address.
FindOptimalPath(fromToken, toToken, quoted) ==
    IF fromToken = Undefined \/ toToken = Undefined \/ ~quoted
      THEN Null
      ELSE [fromToken |-> fromToken, toToken |-> toToken]

\* buildStatisticalArbitrage: sell the overvalued leg, buy it back.
BuildStatisticalArbitrage(pair, zScore, quoted) ==
    LET isOvervalued == zScore > 0
        sellToken == IF isOvervalued THEN pair.tokenA ELSE pair.tokenB
        buyToken == IF isOvervalued THEN pair.tokenB ELSE pair.tokenA
        path == FindOptimalPath(sellToken, buyToken, quoted)
        returnPath == FindOptimalPath(buyToken, sellToken, quoted)
    IN  IF path = Null \/ returnPath = Null
          THEN {}
          ELSE {[type |-> "statistical",
                 path |-> <<[fromToken |-> sellToken, toToken |-> buyToken],
                            [fromToken |-> buyToken, toToken |-> sellToken]>>]}

\* checkTriangularPath(baseToken, tokenA, tokenB)
CheckTriangularPath(baseToken, tokenA, tokenB, quoted) ==
    LET path1 == FindOptimalPath(AddressOf(baseToken), tokenA, quoted)
        path2 == FindOptimalPath(tokenA, tokenB, quoted)
        path3 == FindOptimalPath(tokenB, AddressOf(baseToken), quoted)
    IN  IF path1 = Null \/ path2 = Null \/ path3 = Null
          THEN {}
          ELSE {[type |-> "triangular", path |-> <<path1, path2, path3>>]}

\* findProfitablePaths: the depth-first search for closed paths from
\* startToken of minHops to MaxHops hops.
RECURSIVE Dfs(_, _, _, _, _)
Dfs(startToken, currentPath, currentToken, hops, quoted) ==
    IF hops > MaxHops THEN {}
    ELSE IF hops >= 2 /\ currentToken = startToken /\ Len(currentPath) > 1
      THEN {currentPath}
    ELSE UNION {LET nextStep == FindOptimalPath(currentToken, nextToken, quoted)
                IN  IF nextStep = Null THEN {}
                    ELSE Dfs(startToken, Append(currentPath, nextStep),
                             nextToken, hops + 1, quoted) :
                nextToken \in ActiveTokens \ {currentToken}}

FindProfitablePaths(startToken, quoted) ==
    Dfs(startToken, <<>>, startToken, 0, quoted)

\* scanStatisticalArbitrage visits one monitored pair: an opportunity is
\* pushed when |z| reaches the entry threshold and both routes are quoted
\* (and validateOpportunities keeps it).
ScanStatisticalPair ==
    /\ stage = "statistical"
    /\ \E pair \in todo, zScore \in ZScores, quoted \in BOOLEAN :
         /\ todo' = todo \ {pair}
         /\ opportunities' =
              IF Abs(zScore) >= EntryThreshold
                THEN opportunities \cup BuildStatisticalArbitrage(pair, zScore, quoted)
                ELSE opportunities
    /\ UNCHANGED stage
    /\ ScanOnly

\* The loop over the monitored pairs ends (pairs that are not cointegrated
\* are not monitored and stay unvisited).
ScanStatisticalDone ==
    /\ stage = "statistical"
    /\ stage' = "triangular"
    /\ UNCHANGED <<todo, opportunities>>
    /\ ScanOnly

\* scanTriangularArbitrage: checkTriangularPath for the pairs of active
\* tokens, with config.baseTokens[0] as the base.
ScanTriangular ==
    /\ stage = "triangular"
    /\ \E quoted \in BOOLEAN :
         opportunities' = opportunities \cup
             UNION {CheckTriangularPath(BaseTokens[1], pr[1], pr[2], quoted) :
                       pr \in {q \in ActiveTokens \X ActiveTokens : q[1] # q[2]}}
    /\ stage' = "multihop"
    /\ UNCHANGED todo
    /\ ScanOnly

\* optimizePath re-prices the hops starting from path.amount and measures
\* the profit against it.  The objects findProfitablePaths builds carry
\* path, profit and hops but no amount: no route is quoted for an undefined
\* amount, and the answer is null.
OptimizePath(found) == {}

\* scanMultiHopArbitrage: the closed paths found from the first two base
\* tokens, re-priced by optimizePath.
ScanMultiHop ==
    /\ stage = "multihop"
    /\ \E quoted \in BOOLEAN :
         LET n == IF Len(BaseTokens) < 2 THEN Len(BaseTokens) ELSE 2
             found == UNION {FindProfitablePaths(AddressOf(BaseTokens[i]), quoted) :
                                i \in 1..n}
         IN  opportunities' = opportunities \cup
                 {[type |-> "multihop", path |-> p] : p \in OptimizePath(found)}
    /\ stage' = "done"
    /\ UNCHANGED todo
    /\ ScanOnly

ScanQuiet ==
    /\ stage = "done"
    /\ todo = {}
    /\ opportunities = {}

ScanInit ==
    /\ stage = "statistical"
    /\ todo = Pairs
    /\ opportunities = {}

ScanNext ==
    \/ ScanStatisticalPair
    \/ ScanStatisticalDone
    \/ ScanTriangular
    \/ ScanMultiHop

-----------------------------------------------------------------------------
(***************************************************************************)
(* AggregatorService.getRoute (src/unnamed/part_000, lines 115-155) and    *)
(* its cache, a NodeCache: get answers a copy of the stored value unless   *)
(* the entry's expiry time lies before now, set stores a copy with the     *)
(* expiry time now + ttl.  Routes are modelled as values, so that a copy   *)
(* is the value itself.                                                    *)
(***************************************************************************)

RouteCallers == {"g1", "g2"}

\* The arguments (aggregator, fromToken, toToken, amount) of the calls.
RouteQueries ==
    [aggregator : {"odos", "oneInch"}, fromToken : {"WETH"},
     toToken : {"USDC"}, amount : {1000}]

\* `route_${aggregator}_${fromToken}_${toToken}_${amount}`
CacheKey(q) == <<"route", q.aggregator, q.fromToken, q.toToken, q.amount>>

RouteKeys == {CacheKey(q) : q \in RouteQueries}

\* What the scheduled provider call answers: a route, or an error thrown.
\* returnAmount, the number of hops of path, and gasEstimate (the providers
\* put 0 where the response names no gas).
ProviderRoutes ==
    [returnAmount : {50, 2100}, hops : {0, 2}, gasEstimate : {150000}] \cup
    [returnAmount : {2000}, hops : {2}, gasEstimate : {0}]

NoRoute == [returnAmount |-> 0, hops |-> 0, gasEstimate |-> 0]

ProviderAnswers == [thrown : {FALSE}, route : ProviderRoutes] \cup
                   [thrown : {TRUE}, route : {NoRoute}]

\* validateRouteResponse: TRUE when it does not throw.
ValidateRouteResponse(route) ==
    /\ route.returnAmount > 0
    /\ route.hops > 0
    /\ route.returnAmount >= MinReturn

NoEntry == [set |-> FALSE, value |-> NoRoute, expires |-> 0]

\* An entry whose expiry time lies before now is dropped by every get.
CacheNeverLive(entry, now) == FALSE

\* this.cache.get(cacheKey) answers the stored value.
CacheLive(entry, now) == entry.set /\ ~(entry.expires < now)

NoRouteCall == [pc |-> "idle", key |-> <<>>]

\* How a call ended: the route it returned and when, and whether the route
\* came from the cache; the caller is kept while the call is pending.
NoOutcome ==
    [state |-> "none", task |-> "none", route |-> NoRoute, at |-> 0, hit |-> FALSE]

PendingCall(t) ==
    [state |-> "pending", task |-> t, route |-> NoRoute, at |-> 0, hit |-> FALSE]

ThrewCall ==
    [state |-> "threw", task |-> "none", route |-> NoRoute, at |-> 0, hit |-> FALSE]

ReturnedCall(route, now, hit) ==
    [state |-> "returned", task |-> "none", route |-> route, at |-> now, hit |-> hit]

\* getRoute up to its first await: a cached route is returned at once,
\* otherwise the provider call is handed to the rate limiter.
GetRouteCall(t) ==
    /\ gcall[t].pc = "idle"
    /\ \E q \in RouteQueries :
         LET cacheKey == CacheKey(q)
             cached == routeCache[cacheKey]
         IN  IF CacheLive(cached, gclock)
               THEN /\ lastCall' = [lastCall EXCEPT ![cacheKey] =
                          ReturnedCall(cached.value, gclock, TRUE)]
                    /\ UNCHANGED <<gcall, routeCache, providerRequests>>
               ELSE /\ providerRequests < MaxRequests
                    /\ providerRequests' = providerRequests + 1
                    /\ routeCache' = [routeCache EXCEPT ![cacheKey] = NoEntry]
                    /\ gcall' = [gcall EXCEPT ![t] =
                          [pc |-> "waiting", key |-> cacheKey]]
                    /\ lastCall' = [lastCall EXCEPT ![cacheKey] = PendingCall(t)]
    /\ UNCHANGED <<gclock, lastFetch>>
    /\ RouteOnly

\* The provider call settles: an error, or a route that validateRouteResponse
\* rejects, is rethrown; a valid route is cached for RouteTTL seconds and returned.
GetRouteAnswer(t) ==
    /\ gcall[t].pc = "waiting"
    /\ \E answer \in ProviderAnswers :
         LET cacheKey == gcall[t].key
             ok == ~answer.thrown /\ ValidateRouteResponse(answer.route)
             latest == lastCall[cacheKey] = PendingCall(t)
         IN  IF ok
               THEN /\ routeCache' = [routeCache EXCEPT ![cacheKey] =
                          [set |-> TRUE, value |-> answer.route,
                           expires |-> gclock + RouteTTL]]
                    /\ lastFetch' = [lastFetch EXCEPT ![cacheKey] =
                          ReturnedCall(answer.route, gclock, FALSE)]
                    /\ lastCall' = IF latest
                          THEN [lastCall EXCEPT ![cacheKey] =
                                  ReturnedCall(answer.route, gclock, FALSE)]
                          ELSE lastCall
               ELSE /\ lastCall' = IF latest
                          THEN [lastCall EXCEPT ![cacheKey] = ThrewCall]
                          ELSE lastCall
                    /\ UNCHANGED <<routeCache, lastFetch>>
    /\ gcall' = [gcall EXCEPT ![t] = NoRouteCall]
    /\ UNCHANGED <<gclock, providerRequests>>
    /\ RouteOnly

\* A second passes.
RouteTick ==
    /\ gclock < MaxRouteClock
    /\ gclock' = gclock + 1
    /\ UNCHANGED <<routeCache, gcall, providerRequests, lastFetch, lastCall>>
    /\ RouteOnly

RouteQuiet ==
    /\ gclock = 0
    /\ providerRequests = 0
    /\ routeCache = [k \in RouteKeys |-> NoEntry]
    /\ gcall = [t \in RouteCallers |-> NoRouteCall]
    /\ lastFetch = [k \in RouteKeys |-> NoOutcome]
    /\ lastCall = [k \in RouteKeys |-> NoOutcome]

RouteInit == RouteQuiet

RouteNext ==
    \/ \E t \in RouteCallers : GetRouteCall(t)
    \/ \E t \in RouteCallers : GetRouteAnswer(t)
    \/ RouteTick

-----------------------------------------------------------------------------
(***************************************************************************)
(* AggregatorService.getBestRoute (src/unnamed/part_000, lines 757-801):   *)
(* getRoute for every source of config.aggregatorPriority in order, each   *)
(* through RateLimiter.schedule (src/src/rateLimiter.js, lines 28-51).     *)
(***************************************************************************)

\* config.aggregatorPriority, and the services config.apiRateLimits names.
AggregatorPriority == <<"odos", "oneInch">>

Limiters == {"odos"}

BestQuery(aggregator) ==
    [aggregator |-> aggregator, fromToken |-> "WETH", toToken |-> "USDC",
     amount |-> 1000]

\* The route object of a source names its aggregator.
RouteOf(aggregator, route) ==
    [aggregator |-> aggregator, returnAmount |-> route.returnAmount,
     hops |-> route.hops, gasEstimate |-> route.gasEstimate]

NoBest == [null |-> TRUE, route |-> RouteOf("none", NoRoute)]

IdleBest == [pc |-> "idle", idx |-> 1, routes |-> <<>>, errors |-> 0, result |-> NoBest]

\* The comparator of routes.sort, mirrored: the order it would put the
\* lowest return amount first.
CompareAscending(a, b) ==
    IF b.returnAmount > a.returnAmount THEN 0 - 1
    ELSE IF b.returnAmount < a.returnAmount THEN 1
    ELSE 0

\* The comparator of routes.sort: positive when b belongs before a.
Compare(a, b) ==
    IF b.returnAmount > a.returnAmount THEN 1
    ELSE IF b.returnAmount < a.returnAmount THEN 0 - 1
    ELSE 0

\* Array.prototype.sort with Compare: a stable sort, here by insertion.
RECURSIVE InsertRoute(_, _)
InsertRoute(sorted, r) ==
    IF sorted = <<>> THEN <<r>>
    ELSE IF Compare(Head(sorted), r) > 0
      THEN <<r>> \o sorted
      ELSE <<Head(sorted)>> \o InsertRoute(Tail(sorted), r)

RECURSIVE SortRoutes(_)
SortRoutes(routes) ==
    IF routes = <<>> THEN <<>>
    ELSE InsertRoute(SortRoutes(SubSeq(routes, 1, Len(routes) - 1)),
                     routes[Len(routes)])

\* routes.push(route) under `route && route.returnAmount > 0n`
PushRoute(routes, route) ==
    IF route.returnAmount > 0 THEN Append(routes, route) ELSE routes

\* getBestRoute is called: empty routes and errors.
BestCall ==
    /\ best.pc \in {"idle", "done"}
    /\ best' = [IdleBest EXCEPT !.pc = "loop"]
    /\ UNCHANGED routeVars
    /\ BestOnly

\* The loop calls getRoute for the next source: a cached route is pushed at
\* once, otherwise the provider call is handed to RateLimiter.schedule.
BestGetRoute ==
    /\ best.pc = "loop"
    /\ best.idx <= Len(AggregatorPriority)
    /\ LET aggregator == AggregatorPriority[best.idx]
           cacheKey == CacheKey(BestQuery(aggregator))
           cached == routeCache[cacheKey]
       IN  IF CacheLive(cached, gclock)
             THEN /\ best' = [best EXCEPT
                        !.routes = PushRoute(@, RouteOf(aggregator, cached.value)),
                        !.idx = @ + 1]
                  /\ UNCHANGED routeCache
             ELSE /\ best' = [best EXCEPT !.pc = "await"]
                  /\ routeCache' = [routeCache EXCEPT ![cacheKey] = NoEntry]
    /\ UNCHANGED <<gclock, gcall, providerRequests, lastFetch, lastCall>>
    /\ BestOnly

\* The provider request settles.  schedule: an error whose message includes
\* 'rate limited' makes a limiter's schedule wait and schedule the call
\* again; any other error, and a route validateRouteResponse rejects, is
\* thrown to the loop, which notes it and goes on; a valid route is cached
\* and pushed.
BestSettle ==
    /\ best.pc = "await"
    /\ \E answer \in ProviderAnswers, rateLimited \in BOOLEAN :
         LET aggregator == AggregatorPriority[best.idx]
             cacheKey == CacheKey(BestQuery(aggregator))
         IN  IF answer.thrown /\ rateLimited /\ aggregator \in Limiters
               THEN /\ best' = [best EXCEPT !.pc = "backoff"]
                    /\ UNCHANGED routeCache
             ELSE IF ~answer.thrown /\ ValidateRouteResponse(answer.route)
               THEN /\ routeCache' = [routeCache EXCEPT ![cacheKey] =
                          [set |-> TRUE, value |-> answer.route,
                           expires |-> gclock + RouteTTL]]
                    /\ best' = [best EXCEPT
                          !.pc = "loop",
                          !.routes = PushRoute(@, RouteOf(aggregator, answer.route)),
                          !.idx = @ + 1]
             ELSE /\ best' = [best EXCEPT
                          !.pc = "loop", !.errors = @ + 1, !.idx = @ + 1]
                  /\ UNCHANGED routeCache
    /\ UNCHANGED <<gclock, gcall, providerRequests, lastFetch, lastCall>>
    /\ BestOnly

\* schedule's wait is over: the provider call is scheduled again.
BestRetry ==
    /\ best.pc = "backoff"
    /\ best' = [best EXCEPT !.pc = "await"]
    /\ UNCHANGED routeVars
    /\ BestOnly

\* After the loop: null without routes, else the first of the sorted routes.
BestReturn ==
    /\ best.pc = "loop"
    /\ best.idx > Len(AggregatorPriority)
    /\ best' = [best EXCEPT
          !.pc = "done",
          !.result = IF best.routes = <<>>
                       THEN NoBest
                       ELSE [null |-> FALSE, route |-> SortRoutes(best.routes)[1]]]
    /\ UNCHANGED routeVars
    /\ BestOnly

BestQuiet == best = IdleBest

BestNext ==
    \/ BestCall
    \/ BestGetRoute
    \/ BestSettle
    \/ BestRetry
    \/ BestReturn
    \/ RouteTick

\* The event loop runs every continuation that is ready, and every provider
\* request and every timer settles.
BestFairness ==
    /\ WF_vars(BestGetRoute)
    /\ WF_vars(BestSettle)
    /\ WF_vars(BestRetry)
    /\ WF_vars(BestReturn)

-----------------------------------------------------------------------------
(***************************************************************************)
(* MEVProtection.checkOpportunity (src/unnamed/part_002, lines 488-522)    *)
(* and its use by evaluateOpportunity (src/src/bot.js, lines 494-501).     *)
(***************************************************************************)

\* The four vetoes, in the order of the checks array.
Vetoes == <<"mempool", "gas", "sandwich", "timing">>

VetoSet == {Vetoes[i] : i \in 1..Len(Vetoes)}

\* How the promise of a veto settles: fulfilled with safe true or false, or
\* rejected.  checkMempoolCompetition, checkGasPriceSafety and
\* checkSandwichVulnerability catch every error and answer safe;
\* checkTimingSafety has no catch.
Settlements ==
    {c \in [VetoSet -> {"safe", "unsafe", "rejected"}] :
        \A v \in VetoSet : c[v] = "rejected" => v = "timing"}

\* The verdict that needs every veto to be unsafe.
VerdictIfAllUnsafe(checks) ==
    LET unsafe == SelectSeq(Vetoes, LAMBDA v : checks[v] = "unsafe")
    IN  [safe |-> Len(unsafe) < Len(Vetoes),
         reasons |-> IF Len(unsafe) < Len(Vetoes) THEN <<>> ELSE unsafe]

\* The verdict that counts a rejected veto as an unsafe one.
VerdictRejectedUnsafe(checks) ==
    LET unsafe == SelectSeq(Vetoes, LAMBDA v : checks[v] # "safe")
    IN  [safe |-> unsafe = <<>>,
         reasons |-> IF unsafe = <<>> THEN <<>> ELSE unsafe]

\* results.forEach: a fulfilled result with safe false makes the verdict
\* unsafe and adds its reason; the reasons are kept when the verdict is
\* unsafe.
Verdict(checks) ==
    LET unsafe == SelectSeq(Vetoes, LAMBDA v : checks[v] = "unsafe")
    IN  [safe |-> unsafe = <<>>,
         reasons |-> IF unsafe = <<>> THEN <<>> ELSE unsafe]

NoChecks == [v \in VetoSet |-> "safe"]

IdleGuard ==
    [pc |-> "idle", opp |-> CHOOSE o \in Outcomes : TRUE, checks |-> NoChecks,
     result |-> [safe |-> TRUE, reasons |-> <<>>], execute |-> FALSE]

\* evaluateOpportunity reaches the MEV check for a candidate the accountant
\* passed; checkOpportunity awaits the four vetoes and answers.
CheckOpportunity ==
    /\ guard.pc = "idle"
    /\ \E o \in Outcomes, checks \in Settlements :
         /\ o.profit = "ok"
         /\ o.mev = "ok"
         /\ guard' = [pc |-> "checked", opp |-> o, checks |-> checks,
                      result |-> Verdict(checks), execute |-> FALSE]
    /\ GuardOnly

\* evaluateOpportunity goes on with the answer: unsafe ends the evaluation
\* with false; scanCycle executes the candidate only on true.
EvaluateAfterGuard ==
    /\ guard.pc = "checked"
    /\ LET o == [guard.opp EXCEPT !.mev = IF guard.result.safe THEN "ok" ELSE "veto"]
       IN  guard' = [guard EXCEPT !.pc = "evaluated",
                                  !.execute = EvaluateOpportunity(o).execute]
    /\ GuardOnly

\* The loop goes on to the next candidate.
GuardNext ==
    /\ guard.pc = "evaluated"
    /\ guard' = IdleGuard
    /\ GuardOnly

GuardQuiet == guard = IdleGuard

GuardSteps ==
    \/ CheckOpportunity
    \/ EvaluateAfterGuard
    \/ GuardNext

-----------------------------------------------------------------------------
(***************************************************************************)
(* The pending-transaction window of MEVProtection                         *)
(* (src/unnamed/part_002): analyzeTransaction (lines 96-111) adds,         *)
(* cleanupOldTransactions (lines 477-486) deletes, on the interval of      *)
(* startMempoolMonitoring (lines 59-75).                                   *)
(***************************************************************************)

TxKeys == 1..MaxArrivals

Absent == 0 - 1

\* analyzeTransaction for a pending transaction with a recipient and call
\* data: a key that is not in the map is set, with timestamp Date.now().
AnalyzeTransaction(k) ==
    /\ window[k] = Absent
    /\ window' = [window EXCEPT ![k] = wclock]
    /\ UNCHANGED <<wclock, nextCleanup>>
    /\ WindowOnly

\* The cleanup interval fires: every entry with timestamp < now - 60 s is
\* deleted.
CleanupOldTransactions ==
    /\ wclock >= nextCleanup
    /\ LET oneMinuteAgo == wclock - WindowSpan
       IN  window' = [k \in TxKeys |->
                         IF window[k] # Absent /\ window[k] < oneMinuteAgo
                           THEN Absent ELSE window[k]]
    /\ nextCleanup' = nextCleanup + CleanupEvery
    /\ UNCHANGED wclock
    /\ WindowOnly

\* Time passes; an interval that is due fires first.
WindowTick ==
    /\ wclock < nextCleanup
    /\ wclock + WindowStep <= MaxWindowClock
    /\ wclock' = wclock + WindowStep
    /\ UNCHANGED <<window, nextCleanup>>
    /\ WindowOnly

WindowQuiet ==
    /\ wclock = 0
    /\ window = [k \in TxKeys |-> Absent]
    /\ nextCleanup = CleanupEvery

WindowNext ==
    \/ \E k \in TxKeys : AnalyzeTransaction(k)
    \/ CleanupOldTransactions
    \/ WindowTick

-----------------------------------------------------------------------------
(***************************************************************************)
(* Functions of their arguments alone.  A specification draws the          *)
(* arguments into `input` and its action applies the function, leaving     *)
(* the result in `output`.                                                 *)
(***************************************************************************)

NoInput == [fn |-> "none"]

NoOutput == [fn |-> "none"]

PureQuiet ==
    /\ input = NoInput
    /\ output = NoOutput

-----------------------------------------------------------------------------
(***************************************************************************)
(* An opportunity with a deadline: executeOpportunity (src/src/bot.js,     *)
(* lines 559-592) up to the broadcast, and executeArbitrage                *)
(* (src/contracts/BaseAlphaArb.sol, lines 149-169) for a call that carries *)
(* the deadline in its path.                                               *)
(***************************************************************************)

\* The opportunity's deadline and the time of execution; whether the build,
\* the transaction validation and the send succeed; and the arguments and
\* circumstances of the contract call.
DeadlineInputs ==
    [fn : {"execute"}, deadline : 0..MaxTime, now : 0..MaxTime,
     built : BOOLEAN, valid : BOOLEAN, sent : BOOLEAN,
     hops : {0, 2}, flashLoanAmount : {0, 1000}, guarded : BOOLEAN]

NotExecuted == [fn |-> "execute", broadcast |-> "none", chain |-> "none"]

\* executeOpportunity: buildArbitrageTransaction, validateTransaction,
\* sendTransaction; a failure of any of them is caught and nothing is sent.
\* No step reads a deadline.
ExecuteOpportunity ==
    /\ input.fn = "execute"
    /\ output.broadcast = "none"
    /\ output' = [output EXCEPT !.broadcast =
          IF input.built /\ input.valid /\ input.sent THEN "yes" ELSE "no"]
    /\ UNCHANGED input
    /\ PureOnly

\* executeArbitrage(path, flashLoanAmount): the modifiers (onlyOwner,
\* whenNotPaused, nonReentrant) and the three requires revert the call; else
\* POOL.flashLoanSimple is requested.
ExecuteArbitrage ==
    /\ input.fn = "execute"
    /\ output.chain = "none"
    /\ output' = [output EXCEPT !.chain =
          IF /\ ~input.guarded
             /\ input.hops > 0
             /\ input.flashLoanAmount > 0
             /\ input.deadline > input.now
            THEN "flashLoan" ELSE "reverted"]
    /\ UNCHANGED input
    /\ PureOnly

DeadlineInit ==
    /\ input \in DeadlineInputs
    /\ output = NotExecuted

DeadlineNext ==
    \/ ExecuteOpportunity
    \/ ExecuteArbitrage

-----------------------------------------------------------------------------
(***************************************************************************)
(* Startup: the one bot.start() call of the program's entry point while    *)
(* isInitialized is false, through initialize() (src/src/bot.js, lines     *)
(* 44-98) with ConfigValidator.validateFullConfig (src/src/rpcManager.js,  *)
(* lines 157-175), up to the first evaluation of the loop condition.       *)
(* `input` holds what the environment will answer, `output` the state of   *)
(* the bot and the position of the task.                                   *)
(***************************************************************************)

\* The steps of initialize() after the validation, in order.
InitSteps == <<"infrastructure", "services", "monitoring", "health">>

\* Where something throws: nowhere, in validateFullConfig itself, in one of
\* the steps, or while the arguments of the 'Bot Initialized' alert are
\* computed.
ThrowAt == {"none", "validate", "infrastructure", "services", "monitoring",
            "health", "success_alert"}

\* errors and warnings: how many entries the validate* methods push.
StartupInputs ==
    [fn : {"start"}, errors : 0..MaxConfigErrors, warnings : 0..1,
     throwAt : ThrowAt, delivered : BOOLEAN]

NotStarted ==
    [fn |-> "start", pc |-> "idle", isInitialized |-> FALSE,
     isRunning |-> FALSE, critical |-> 0, sent |-> 0, exited |-> FALSE]

\* A validator that calls every configuration valid.
IsValidAlways(errors) == TRUE

\* validateFullConfig's isValid: this.errors.length === 0.
IsValid(errors) == errors = 0

\* AlertingSystem.sendCriticalError is called: the alert is requested, and
\* sent if a channel delivers it (sendAlert catches a channel's failure).
RequestCritical(o) ==
    [o EXCEPT !.critical = @ + 1,
              !.sent = IF input.delivered THEN @ + 1 ELSE @]

\* The catch block of initialize(): sendCriticalError, awaited.
CatchInit(o) == [RequestCritical(o) EXCEPT !.pc = "catch_alert"]

\* start(): isInitialized is false, so initialize() is entered; it awaits
\* validateFullConfig.
StartupCall ==
    /\ input.fn = "start"
    /\ output.pc = "idle"
    /\ output' = [output EXCEPT !.pc = "validating"]
    /\ UNCHANGED input
    /\ PureOnly

\* validateFullConfig settles.  With errors the failure is logged and the
\* critical alert awaited; else initializeInfrastructure is awaited.
ValidationSettles ==
    /\ input.fn = "start"
    /\ output.pc = "validating"
    /\ output' =
         IF input.throwAt = "validate" THEN CatchInit(output)
         ELSE IF ~IsValid(input.errors)
           THEN [RequestCritical(output) EXCEPT !.pc = "config_alert"]
         ELSE [output EXCEPT !.pc = InitSteps[1]]
    /\ UNCHANGED input
    /\ PureOnly

\* The critical alert of the failed validation, or the one of the catch
\* block, has settled: process.exit(1).
ExitAfterAlert ==
    /\ input.fn = "start"
    /\ output.pc \in {"config_alert", "catch_alert"}
    /\ output' = [output EXCEPT !.pc = "exited", !.exited = TRUE]
    /\ UNCHANGED input
    /\ PureOnly

\* Step i of initialize() settles: the next one is awaited; after the health
\* checks isInitialized is set and the 'Bot Initialized' alert is sent.
InitStep(i) ==
    /\ input.fn = "start"
    /\ output.pc = InitSteps[i]
    /\ output' =
         IF input.throwAt = InitSteps[i] THEN CatchInit(output)
         ELSE IF i < Len(InitSteps) THEN [output EXCEPT !.pc = InitSteps[i + 1]]
         ELSE IF input.throwAt = "success_alert"
           THEN CatchInit([output EXCEPT !.isInitialized = TRUE])
         ELSE [output EXCEPT !.isInitialized = TRUE, !.pc = "success_alert"]
    /\ UNCHANGED input
    /\ PureOnly

\* initialize() returns to start(): the bot is neither running nor in
\* emergency shutdown, so isRunning is set and the 'Bot Started' alert sent.
StartupRun ==
    /\ input.fn = "start"
    /\ output.pc = "success_alert"
    /\ output' = [output EXCEPT !.isRunning = TRUE, !.pc = "start_alert"]
    /\ UNCHANGED input
    /\ PureOnly

\* The loop condition holds and the first scanCycle is entered.
StartupLoop ==
    /\ input.fn = "start"
    /\ output.pc = "start_alert"
    /\ output.isRunning
    /\ output' = [output EXCEPT !.pc = "scanning"]
    /\ UNCHANGED input
    /\ PureOnly

StartupInit ==
    /\ input \in StartupInputs
    /\ output = NotStarted

StartupNext ==
    \/ StartupCall
    \/ ValidationSettles
    \/ ExitAfterAlert
    \/ \E i \in 1..Len(InitSteps) : InitStep(i)
    \/ StartupRun
    \/ StartupLoop

-----------------------------------------------------------------------------
(***************************************************************************)
(* ZScoreEngine.getTradingSignal with calculateZScore (src/src/            *)
(* rateLimiter.js, lines 428-481 and 557-589), for a pair with no cached   *)
(* z-score.  Prices and ratios are whole numbers; the thresholds are in    *)
(* tenths.  A z-score is kept exact, as the three numbers it is made of:   *)
(* with n ratios of sum s, z = (ratio - mean) / stdDev equals              *)
(* num * sqrt(n) / (den * sqrt(q)), where num = n * priceA - s * priceB,   *)
(* den = priceB and q is the sum of the squares of n * ratio_i - s.        *)
(***************************************************************************)

\* config.zScoreSettings.entryThreshold / exitThreshold, 0 when absent.
ThresholdSettings == {0, 10, 15}

Histories ==
    UNION {[1..n -> 1..3] : n \in (ZWindowSize - 2)..ZWindowSize}

SignalInputs ==
    [fn : {"signal"}, priceA : {0, 1, 2, 6}, priceB : {0, 1, 2},
     history : Histories,
     entryThreshold : ThresholdSettings, exitThreshold : ThresholdSettings]

\* The constructor's `setting || fallback`.
OrDefault(setting, fallback) == IF setting = 0 THEN fallback ELSE setting

RECURSIVE SumOf(_)
SumOf(s) == IF s = <<>> THEN 0 ELSE Head(s) + SumOf(Tail(s))

\* n^3 times the variance of the ratios.
ScaledVariance(h) ==
    LET n == Len(h)
        s == SumOf(h)
    IN  SumOf([i \in 1..n |-> (n * h[i] - s) * (n * h[i] - s)])

NoZScore == [null |-> TRUE, num |-> 0, den |-> 1, n |-> 1, q |-> 1]

\* calculateZScore: null without a price, with fewer ratios than 0.7 times
\* the window, or with stdDev === 0.
CalculateZScore(in) ==
    IF in.priceA = 0 \/ in.priceB = 0 THEN NoZScore
    ELSE IF 10 * Len(in.history) < 7 * ZWindowSize THEN NoZScore
    ELSE IF ScaledVariance(in.history) = 0 THEN NoZScore
    ELSE [null |-> FALSE,
          num |-> Len(in.history) * in.priceA - SumOf(in.history) * in.priceB,
          den |-> in.priceB,
          n |-> Len(in.history),
          q |-> ScaledVariance(in.history)]

\* x * |x| keeps the order of the numbers it is applied to.
SignedSquare(x) == x * Abs(x)

\* z.value >= t / 10.
ZAtLeast(z, t) == SignedSquare(10 * z.num) * z.n >= SignedSquare(t * z.den) * z.q

\* z.value > t / 10 and z.value < t / 10, compared through SignedSquare.
ZAbove(z, t) == SignedSquare(10 * z.num) * z.n > SignedSquare(t * z.den) * z.q

ZBelow(z, t) == SignedSquare(10 * z.num) * z.n < SignedSquare(t * z.den) * z.q

\* A signal that is SHORT_A_LONG_B already at the entry threshold.
SignalOfAtLeast(z, entry, exit) ==
    IF z.null THEN "HOLD"
    ELSE IF ZAtLeast(z, entry) THEN "SHORT_A_LONG_B"
    ELSE IF ZBelow(z, 0 - entry) THEN "LONG_A_SHORT_B"
    ELSE IF ZBelow([z EXCEPT !.num = Abs(z.num)], exit) THEN "CLOSE_POSITION"
    ELSE "HOLD"

\* getTradingSignal's signal for the z-score calculateZScore returned.
SignalOf(z, entry, exit) ==
    IF z.null THEN "HOLD"
    ELSE IF ZAbove(z, entry) THEN "SHORT_A_LONG_B"
    ELSE IF ZBelow(z, 0 - entry) THEN "LONG_A_SHORT_B"
    ELSE IF ZBelow([z EXCEPT !.num = Abs(z.num)], exit) THEN "CLOSE_POSITION"
    ELSE "HOLD"

NoSignal == [fn |-> "signal", pc |-> "called", zScore |-> NoZScore, signal |-> "none"]

\* getTradingSignal awaits calculateZScore.
ZScoreSettles ==
    /\ input.fn = "signal"
    /\ output.pc = "called"
    /\ output' = [output EXCEPT !.pc = "scored", !.zScore = CalculateZScore(input)]
    /\ UNCHANGED input
    /\ PureOnly

\* The rest of getTradingSignal.
GetTradingSignal ==
    /\ input.fn = "signal"
    /\ output.pc = "scored"
    /\ output' = [output EXCEPT
          !.pc = "returned",
          !.signal = SignalOf(output.zScore,
                              OrDefault(input.entryThreshold, DefaultEntryThreshold),
                              OrDefault(input.exitThreshold, DefaultExitThreshold))]
    /\ UNCHANGED input
    /\ PureOnly

SignalInit ==
    /\ input \in SignalInputs
    /\ output = NoSignal

SignalNext ==
    \/ ZScoreSettles
    \/ GetTradingSignal

-----------------------------------------------------------------------------
(***************************************************************************)
(* SlippageModel.estimateSlippageForLiquidity (src/src/profitCalculator.js,*)
(* lines 745-758), applied to one trade size and two liquidities.  Sizes   *)
(* and liquidities are whole USD; a slippage is in units of 0.0001.        *)
(***************************************************************************)

\* liquidity / trade size at the edges of the bands: 1 / 0.2, ..., 1 / 0.001.
BandEdges == {5, 10, 20, 50, 100, 200, 1000}

\* No liquidity, and for every trade size the liquidities at and just past
\* every edge.
Liquidities ==
    {0} \cup {t * e + d : t \in 1..MaxTradeSize, e \in BandEdges, d \in {0, 1}}

SlippageInputs ==
    {in \in [fn : {"slippage"}, tradeSizeUSD : 0..MaxTradeSize,
             liq1 : Liquidities, liq2 : Liquidities] : in.liq1 <= in.liq2}

\* The bands with the results of the second and the third exchanged.
EstimateSlippageSwapped(tradeSizeUSD, liquidityUSD) ==
    IF liquidityUSD = 0 THEN 10000
    ELSE IF 1000 * tradeSizeUSD < liquidityUSD THEN 5
    ELSE IF 200 * tradeSizeUSD < liquidityUSD THEN 20
    ELSE IF 100 * tradeSizeUSD < liquidityUSD THEN 10
    ELSE IF 50 * tradeSizeUSD < liquidityUSD THEN 50
    ELSE IF 20 * tradeSizeUSD < liquidityUSD THEN 100
    ELSE IF 10 * tradeSizeUSD < liquidityUSD THEN 200
    ELSE IF 5 * tradeSizeUSD < liquidityUSD THEN 500
    ELSE 1000

\* ratio = tradeSizeUSD / liquidityUSD; ratio < 0.001 is
\* 1000 * tradeSizeUSD < liquidityUSD for a positive liquidity, and so on.
EstimateSlippageForLiquidity(tradeSizeUSD, liquidityUSD) ==
    IF liquidityUSD = 0 THEN 10000
    ELSE IF 1000 * tradeSizeUSD < liquidityUSD THEN 5
    ELSE IF 200 * tradeSizeUSD < liquidityUSD THEN 10
    ELSE IF 100 * tradeSizeUSD < liquidityUSD THEN 20
    ELSE IF 50 * tradeSizeUSD < liquidityUSD THEN 50
    ELSE IF 20 * tradeSizeUSD < liquidityUSD THEN 100
    ELSE IF 10 * tradeSizeUSD < liquidityUSD THEN 200
    ELSE IF 5 * tradeSizeUSD < liquidityUSD THEN 500
    ELSE 1000

Unknown == 0 - 1

NoSlippage == [fn |-> "slippage", s1 |-> Unknown, s2 |-> Unknown]

\* The estimate for the smaller liquidity.
EstimateFirst ==
    /\ input.fn = "slippage"
    /\ output.s1 = Unknown
    /\ output' = [output EXCEPT
          !.s1 = EstimateSlippageForLiquidity(input.tradeSizeUSD, input.liq1)]
    /\ UNCHANGED input
    /\ PureOnly

\* The estimate for the larger liquidity.
EstimateSecond ==
    /\ input.fn = "slippage"
    /\ output.s2 = Unknown
    /\ output' = [output EXCEPT
          !.s2 = EstimateSlippageForLiquidity(input.tradeSizeUSD, input.liq2)]
    /\ UNCHANGED input
    /\ PureOnly

SlippageInit ==
    /\ input \in SlippageInputs
    /\ output = NoSlippage

SlippageNext ==
    \/ EstimateFirst
    \/ EstimateSecond

-----------------------------------------------------------------------------
(***************************************************************************)
(* ProfitCalculator.simulateTransaction with performTenderlySimulation and *)
(* performLocalSimulation (src/src/profitCalculator.js, lines 217-281 and  *)
(* 335-390).  Amounts are whole USD.                                       *)
(***************************************************************************)

\* What the Tenderly request comes to: no API key, a failed request, a
\* simulation with status false, or one with another status.
TenderlyAnswers == {"no_key", "request_fails", "status_false", "status_ok"}

\* The parts of the profit as calculateExpectedProfit and the gas estimate
\* give them, and what the environment does.
SimulationInputs ==
    [fn : {"simulate"}, testMode : BOOLEAN, providerOk : BOOLEAN,
     tenderly : TenderlyAnswers, localThrows : BOOLEAN,
     grossProfitUSD : 0..MaxGrossUSD, gasCostUSD : 0..MaxCostUSD,
     flashLoanCostUSD : 0..MaxCostUSD, slippageBufferUSD : 0..MaxCostUSD]

NotSimulated ==
    [fn |-> "simulate", pc |-> "called", path |-> "none",
     success |-> FALSE, hasNetProfit |-> FALSE, netProfitUSD |-> 0]

\* ProfitCalculator defines no getFeeData: `await this.getFeeData()` in
\* performTenderlySimulation throws a TypeError.
HasGetFeeData == FALSE

\* netProfitUSD of performLocalSimulation (and of performTenderlySimulation).
SimulatedNetProfit(in) ==
    in.grossProfitUSD - in.gasCostUSD - in.flashLoanCostUSD

\* The answer of the outer catch, and of a simulation with status false.
FailedSimulation(o, path) ==
    [o EXCEPT !.pc = "returned", !.path = path, !.success = FALSE]

\* simulateTransaction awaits getHealthyProvider; in test mode it goes on
\* with the local simulation, else with the Tenderly one.
SimulateTransaction ==
    /\ input.fn = "simulate"
    /\ output.pc = "called"
    /\ output' =
         IF ~input.providerOk THEN FailedSimulation(output, "none")
         ELSE IF input.testMode THEN [output EXCEPT !.pc = "local"]
         ELSE [output EXCEPT !.pc = "tenderly"]
    /\ UNCHANGED input
    /\ PureOnly

\* performTenderlySimulation: whatever it throws sends simulateTransaction to
\* the local simulation.
PerformTenderlySimulation ==
    /\ input.fn = "simulate"
    /\ output.pc = "tenderly"
    /\ output' =
         IF input.tenderly \in {"no_key", "request_fails"}
           THEN [output EXCEPT !.pc = "local"]
         ELSE IF input.tenderly = "status_false"
           THEN FailedSimulation(output, "tenderly")
         ELSE IF ~HasGetFeeData
           THEN [output EXCEPT !.pc = "local"]
         ELSE [output EXCEPT !.pc = "returned", !.path = "tenderly",
                             !.success = TRUE, !.hasNetProfit = TRUE,
                             !.netProfitUSD = SimulatedNetProfit(input)]
    /\ UNCHANGED input
    /\ PureOnly

\* performLocalSimulation; what it throws reaches the outer catch.
PerformLocalSimulation ==
    /\ input.fn = "simulate"
    /\ output.pc = "local"
    /\ output' =
         IF input.localThrows THEN FailedSimulation(output, "local")
         ELSE [output EXCEPT !.pc = "returned", !.path = "local",
                             !.success = SimulatedNetProfit(input) > 0,
                             !.hasNetProfit = TRUE,
                             !.netProfitUSD = SimulatedNetProfit(input)]
    /\ UNCHANGED input
    /\ PureOnly

SimulationInit ==
    /\ input \in SimulationInputs
    /\ output = NotSimulated

SimulationNext ==
    \/ SimulateTransaction
    \/ PerformTenderlySimulation
    \/ PerformLocalSimulation

-----------------------------------------------------------------------------
(***************************************************************************)
(* ProfitCalculator.calculateFlashLoanCost (src/src/profitCalculator.js,   *)
(* lines 182-189).  The amount is a BigInt in the token's smallest unit;   *)
(* the value in USD is kept as premium times price, per whole token.       *)
(***************************************************************************)

\* config.flashLoanPremiumBps, 0 when it is not configured.
PremiumSettings == {0, 5, 30}

\* Small amounts, and amounts around the multiples of 10000 / 9.
LoanAmounts ==
    0..MaxLoanAmount \cup {1111, 1112, 9999, 10000, 10001, 100000, 1000000}

PremiumInputs ==
    [fn : {"premium"}, amount : LoanAmounts, flashLoanPremiumBps : PremiumSettings,
     priceUSD : {0, 2}]

\* A premium rounded up instead of down.
FlashLoanPremiumCeil(amount, setting) ==
    (amount * OrDefault(setting, DefaultPremiumBps) + 9999) \div 10000

\* premiumBps = config.flashLoanPremiumBps || 9;
\* premium = amount * ethers.getBigInt(premiumBps) / 10000n.
FlashLoanPremium(amount, setting) ==
    (amount * OrDefault(setting, DefaultPremiumBps)) \div 10000

\* calculateUSDValue: 0 without a positive price.
PremiumValue(premium, priceUSD) ==
    IF priceUSD = 0 \/ priceUSD <= 0 THEN 0 ELSE premium * priceUSD

NoPremium == [fn |-> "premium", done |-> FALSE, premium |-> 0, valueUSD |-> 0]

CalculateFlashLoanCost ==
    /\ input.fn = "premium"
    /\ ~output.done
    /\ LET premium == FlashLoanPremium(input.amount, input.flashLoanPremiumBps)
       IN  output' = [output EXCEPT
                !.done = TRUE,
                !.premium = premium,
                !.valueUSD = PremiumValue(premium, input.priceUSD)]
    /\ UNCHANGED input
    /\ PureOnly

PremiumInit ==
    /\ input \in PremiumInputs
    /\ output = NoPremium

PremiumNext == CalculateFlashLoanCost

-----------------------------------------------------------------------------
(***************************************************************************)
(* The candidate loop of scanCycle, one candidate at a time.  input holds  *)
(* the opportunities the scan returned, output the sorted list, the        *)
(* position of the loop and the events of the cycle in their order.        *)
(***************************************************************************)

\* An opportunity of the scan: its netProfitUSD field, the answer of
\* evaluateOpportunity and the result of executeOpportunity, were they called.
ScannedOpportunity(listed, shouldExecute, result) ==
    [listed |-> listed, validate |-> "ok", shouldExecute |-> shouldExecute,
     result |-> result]

Listed(value) == [set |-> TRUE, value |-> value]

ScannedOpportunities ==
    { ScannedOpportunity(NoField, TRUE, "success"),
      ScannedOpportunity(Listed(MinProfitThresholdUSD), FALSE, "success"),
      ScannedOpportunity(Listed(MinProfitThresholdUSD), TRUE, "failure"),
      ScannedOpportunity(Listed(MinProfitThresholdUSD), TRUE, "success"),
      ScannedOpportunity(Listed(MinProfitThresholdUSD + 2), TRUE, "failure"),
      ScannedOpportunity(Listed(MinProfitThresholdUSD + 2), TRUE, "success") }

CycleInputs ==
    [fn : {"cycle"},
     opportunities : UNION { [1..n -> ScannedOpportunities] : n \in 0..MaxScanned }]

\* (x.netProfitUSD || 0)
ProfitOrZero(o) == IF o.listed.set THEN o.listed.value ELSE 0

\* The comparator of opportunities.sort: positive when b belongs before a.
CompareProfit(a, b) == ProfitOrZero(b) - ProfitOrZero(a)

\* Array.prototype.sort with CompareProfit: a stable sort, here by insertion.
RECURSIVE InsertOpportunity(_, _)
InsertOpportunity(sorted, o) ==
    IF sorted = <<>> THEN <<o>>
    ELSE IF CompareProfit(Head(sorted), o) > 0
      THEN <<o>> \o sorted
      ELSE <<Head(sorted)>> \o InsertOpportunity(Tail(sorted), o)

RECURSIVE SortOpportunities(_)
SortOpportunities(found) ==
    IF found = <<>> THEN <<>>
    ELSE InsertOpportunity(SortOpportunities(SubSeq(found, 1, Len(found) - 1)),
                           found[Len(found)])

\* The loop taken over the whole sorted list.
WholeList(sorted) == sorted

\* sortedOpportunities.slice(0, 5)
TopCandidates(sorted) == SubSeq(sorted, 1, Min(Len(sorted), TopN))

NoCycle == [fn |-> "cycle", pc |-> "scan", candidates |-> <<>>, i |-> 1,
            events |-> <<>>]

CycleEvent(kind, o, result) ==
    [kind |-> kind, netProfitUSD |-> ProfitOrZero(o), result |-> result]

\* The events of one pass of the loop body over candidate o.
EventsOf(o) ==
    IF ValidateOpportunity(o) # "ok" THEN <<>>
    ELSE IF ~o.shouldExecute THEN <<CycleEvent("evaluate", o, "false")>>
    ELSE <<CycleEvent("evaluate", o, "true"),
           CycleEvent("execute", o, o.result)>>

\* `if (executionResult.success) break;`
Breaks(o) ==
    ValidateOpportunity(o) = "ok" /\ o.shouldExecute /\ o.result = "success"

\* The scan returns: the opportunities are sorted and the loop is entered
\* over the first of them.
SortCandidates ==
    /\ output.fn = "cycle" /\ output.pc = "scan"
    /\ output' = [output EXCEPT
                      !.pc = "loop",
                      !.candidates = TopCandidates(SortOpportunities(input.opportunities))]
    /\ UNCHANGED input
    /\ PureOnly

\* One pass of the loop body.
LoopCandidate ==
    /\ output.fn = "cycle" /\ output.pc = "loop"
    /\ output.i <= Len(output.candidates)
    /\ LET o == output.candidates[output.i]
       IN  output' = [output EXCEPT
                          !.events = @ \o EventsOf(o),
                          !.i = @ + 1,
                          !.pc = IF Breaks(o) THEN "done" ELSE "loop"]
    /\ UNCHANGED input
    /\ PureOnly

\* The loop runs out of candidates.
LoopEnds ==
    /\ output.fn = "cycle" /\ output.pc = "loop"
    /\ output.i > Len(output.candidates)
    /\ output' = [output EXCEPT !.pc = "done"]
    /\ UNCHANGED input
    /\ PureOnly

CycleInit ==
    /\ input \in CycleInputs
    /\ output = NoCycle

CycleNext == SortCandidates \/ LoopCandidate \/ LoopEnds

-----------------------------------------------------------------------------
(***************************************************************************)
(* scanStatisticalArbitrage (src/unnamed/part_001, lines 121-142) on one   *)
(* monitored pair, with the z-score of calculateZScore as above.  The      *)
(* input adds whether buildStatisticalArbitrage finds an opportunity to    *)
(* build (a positive trade size and a quoted route each way).              *)
(***************************************************************************)

StatisticalInputs ==
    [fn : {"statistical"}, priceA : {0, 1, 2, 6}, priceB : {0, 1, 2},
     history : Histories, entryThreshold : ThresholdSettings,
     buildable : BOOLEAN]

\* Math.abs(zScore.value) >= config.zScoreSettings.entryThreshold, on the
\* setting itself: against a threshold that is not configured the
\* comparison is false.
ReachesEntry(z, setting) ==
    /\ setting # 0
    /\ ZAtLeast([z EXCEPT !.num = Abs(z.num)], setting)

NoStatistical ==
    [fn |-> "statistical", pc |-> "called", zScore |-> NoZScore,
     opportunities |-> 0]

\* The loop body awaits calculateZScore(pair).
PairZScoreSettles ==
    /\ input.fn = "statistical"
    /\ output.pc = "called"
    /\ output' = [output EXCEPT !.pc = "scored", !.zScore = CalculateZScore(input)]
    /\ UNCHANGED input
    /\ PureOnly

\* The test of the z-score: reading .value of null throws into the catch
\* block, which goes on to the next pair; a z-score that passes the test
\* has buildStatisticalArbitrage called.
CompareWithEntry ==
    /\ input.fn = "statistical"
    /\ output.pc = "scored"
    /\ output' = [output EXCEPT
          !.pc = IF output.zScore.null THEN "caught"
                 ELSE IF ReachesEntry(output.zScore, input.entryThreshold)
                   THEN "building"
                 ELSE "skipped"]
    /\ UNCHANGED input
    /\ PureOnly

\* buildStatisticalArbitrage settles: its opportunity, if any, is pushed.
BuildSettles ==
    /\ input.fn = "statistical"
    /\ output.pc = "building"
    /\ output' = [output EXCEPT
          !.pc = "built",
          !.opportunities = IF input.buildable THEN @ + 1 ELSE @]
    /\ UNCHANGED input
    /\ PureOnly

StatisticalInit ==
    /\ input \in StatisticalInputs
    /\ output = NoStatistical

StatisticalNext ==
    \/ PairZScoreSettles
    \/ CompareWithEntry
    \/ BuildSettles

-----------------------------------------------------------------------------
(***************************************************************************)
(* MetricsCollector.recordExecution (src/src/metrics.js, lines 144-182)    *)
(* with the counters and gauges it records the outcome and the profit in   *)
(* (lines 21-51, 85-108, 215-223).  output holds the counters, the gauges, *)
(* the cached daily profit and the executions recorded so far, all within  *)
(* one day.  Profits are whole USD.                                        *)
(***************************************************************************)

\* The counters and the gauges initializeMetrics creates, of those
\* recordExecution names.
CounterNames == {"opportunities_executed_total", "opportunities_failed_total"}

GaugeNames == {"total_profit_usd", "daily_profit_usd"}

Executions == [success : BOOLEAN, netProfitUSD : {1, 2}]

\* incrementCounter: a name that is not a counter is logged and left.
IncrementCounter(counters, name, value) ==
    IF name \notin DOMAIN counters THEN counters
    ELSE [counters EXCEPT ![name] = @ + value]

\* setGauge, likewise.
SetGauge(gauges, name, value) ==
    IF name \notin DOMAIN gauges THEN gauges
    ELSE [gauges EXCEPT ![name] = value]

GetCounterValue(counters, name) ==
    IF name \in DOMAIN counters THEN counters[name] ELSE 0

NoMetrics ==
    [fn |-> "metrics",
     counters |-> [c \in CounterNames |-> 0],
     gauges |-> [g \in GaugeNames |-> 0],
     dailyProfit |-> 0,
     executions |-> <<>>]

\* recordExecution(opportunity, executionResult)
RecordExecution(e) ==
    /\ output.fn = "metrics"
    /\ Len(output.executions) < MaxExecutions
    /\ LET counted == IncrementCounter(output.counters,
                                       "opportunities_executed_total", 1)
       IN  IF e.success
             THEN LET counters == IncrementCounter(counted, "total_profit_usd",
                                                   e.netProfitUSD)
                      total == SetGauge(output.gauges, "total_profit_usd",
                                        GetCounterValue(counters, "total_profit_usd"))
                      dailyProfit == output.dailyProfit + e.netProfitUSD
                  IN  output' = [output EXCEPT
                          !.counters = counters,
                          !.gauges = SetGauge(total, "daily_profit_usd", dailyProfit),
                          !.dailyProfit = dailyProfit,
                          !.executions = Append(@, e)]
             ELSE output' = [output EXCEPT
                          !.counters = IncrementCounter(counted,
                                           "opportunities_failed_total", 1),
                          !.executions = Append(@, e)]
    /\ UNCHANGED input
    /\ PureOnly

MetricsInit ==
    /\ input = [fn |-> "metrics"]
    /\ output = NoMetrics

MetricsNext == \E e \in Executions : RecordExecution(e)

-----------------------------------------------------------------------------
(***************************************************************************)
(* The cointegration test of one pair (src/src/rateLimiter.js):            *)
(* performCointegrationTests (lines 162-190) calls testCointegration       *)
(* (lines 192-239) with its default lookback, which calls                  *)
(* getHistoricalPrices (lines 348-383) for either token on an empty        *)
(* priceHistory; getMonitoredPairs (lines 545-555) follows.  The only      *)
(* other writer of priceHistory, updatePriceHistory, runs on the interval  *)
(* of startPriceUpdateListener, which initialize() never reaches: the      *)
(* call of this.loadHistoricalData before it (line 99) throws, the class   *)
(* having no such method.  A list of prices is kept as its length.         *)
(***************************************************************************)

PairTokens == {"A", "B"}

\* At which blocks getTokenPriceAtBlock has a price for a token, or that
\* getHealthyProvider fails.
Availabilities == {"always", "never", "even", "no provider"}

\* The answer of the statistics on the residuals: the ADF test fails, or it
\* passes with this half-life (and a Hurst exponent that passes).
Statistics == {0 - 1, 10, 50}

CointegrationInputs ==
    [fn : {"cointegration"}, currentBlock : {3, 250, 1000},
     priced : [PairTokens -> Availabilities], halfLife : Statistics]

\* A step of one block.
BlockStepOne(lookback) == 1

\* blockStep = Math.max(1, Math.floor(lookback / 100))
BlockStep(lookback) ==
    IF lookback \div SamplesPerLookback > 1
      THEN lookback \div SamplesPerLookback ELSE 1

HasPrice(availability, blockNumber) ==
    \/ availability = "always"
    \/ availability = "even" /\ blockNumber % 2 = 0

NotTested ==
    [fn |-> "cointegration", pc |-> "called", token |-> "A", i |-> 0,
     prices |-> [t \in PairTokens |-> 0], result |-> "none",
     cointegrated |-> FALSE, monitored |-> 0]

\* performCointegrationTests calls testCointegration for the pair, which
\* calls getHistoricalPrices for a token: the provider is asked, and an
\* error returns [].
GetHistoricalPrices ==
    /\ output.fn = "cointegration"
    /\ output.pc = "called"
    /\ output' = [output EXCEPT
          !.pc = IF input.priced[output.token] = "no provider"
                   THEN "fetched" ELSE "sampling",
          !.i = 0]
    /\ UNCHANGED input
    /\ PureOnly

\* One pass of the sampling loop: the price at currentBlock - i, pushed
\* when there is one.
SamplePrice ==
    /\ output.fn = "cointegration"
    /\ output.pc = "sampling"
    /\ output.i < Lookback
    /\ input.currentBlock - output.i >= 0
    /\ output' = [output EXCEPT
          !.prices[output.token] =
              IF HasPrice(input.priced[output.token], input.currentBlock - output.i)
                THEN @ + 1 ELSE @,
          !.i = @ + BlockStep(Lookback)]
    /\ UNCHANGED input
    /\ PureOnly

\* The loop ends, at the lookback or at block 0.
SamplingEnds ==
    /\ output.fn = "cointegration"
    /\ output.pc = "sampling"
    /\ output.i >= Lookback \/ input.currentBlock - output.i < 0
    /\ output' = [output EXCEPT !.pc = "fetched"]
    /\ UNCHANGED input
    /\ PureOnly

\* getHistoricalPrices returns: the other token is fetched, or the test
\* goes on with both lists.
PricesReturned ==
    /\ output.fn = "cointegration"
    /\ output.pc = "fetched"
    /\ output' = IF output.token = "A"
                   THEN [output EXCEPT !.pc = "called", !.token = "B"]
                   ELSE [output EXCEPT !.pc = "testing"]
    /\ UNCHANGED input
    /\ PureOnly

\* The rest of testCointegration: null with fewer than 0.8 * lookback
\* prices on a side, or when the statistics fail or the half-life is above
\* 100; performCointegrationTests marks the pair when the result is not null.
TestCointegration ==
    /\ output.fn = "cointegration"
    /\ output.pc = "testing"
    /\ LET short == \E t \in PairTokens : 10 * output.prices[t] < 8 * Lookback
           passes == ~short /\ input.halfLife >= 0 /\ input.halfLife <= 100
       IN  output' = [output EXCEPT
              !.pc = "tested",
              !.result = IF passes THEN "cointegrated" ELSE "null",
              !.cointegrated = passes]
    /\ UNCHANGED input
    /\ PureOnly

\* getMonitoredPairs: the pairs that are cointegrated with a half-life
\* below the threshold.
GetMonitoredPairs ==
    /\ output.fn = "cointegration"
    /\ output.pc = "tested"
    /\ output' = [output EXCEPT
          !.pc = "done",
          !.monitored = IF output.cointegrated /\ input.halfLife < HalfLifeThreshold
                          THEN 1 ELSE 0]
    /\ UNCHANGED input
    /\ PureOnly

CointegrationInit ==
    /\ input \in CointegrationInputs
    /\ output = NotTested

CointegrationNext ==
    \/ GetHistoricalPrices
    \/ SamplePrice
    \/ SamplingEnds
    \/ PricesReturned
    \/ TestCointegration
    \/ GetMonitoredPairs

-----------------------------------------------------------------------------
(***************************************************************************)
(* The mempool monitoring of MEVProtection (src/unnamed/part_002):         *)
(* startMempoolMonitoring (lines 59-75) calls monitorMempool (lines        *)
(* 77-94) every second, and monitorMempool registers a 'pending' listener  *)
(* on the provider getHealthyProvider answers.  output counts the          *)
(* listeners of each endpoint and, for the latest pending hash, the        *)
(* endpoint that announced it and the getTransaction calls it caused.      *)
(***************************************************************************)

NotMonitoring ==
    [fn |-> "mempool", subscriptions |-> [n \in Nodes |-> 0],
     announcedBy |-> 0, fetches |-> 0, failures |-> 0]

Subscribed(o) == o.subscriptions[0] + o.subscriptions[1] + o.subscriptions[2]

\* The interval fires and getHealthyProvider answers endpoint n:
\* provider.on('pending', ...) adds a listener to it.
MonitorMempool(n) ==
    /\ output.fn = "mempool"
    /\ Subscribed(output) < MaxSubscriptions
    /\ output' = [output EXCEPT !.subscriptions[n] = @ + 1]
    /\ UNCHANGED input
    /\ PureOnly

\* The interval fires and getHealthyProvider throws: the error is logged by
\* the interval's catch block.
MonitorMempoolFails ==
    /\ output.fn = "mempool"
    /\ output.failures < 1
    /\ output' = [output EXCEPT !.failures = @ + 1]
    /\ UNCHANGED input
    /\ PureOnly

\* Endpoint n announces a pending transaction hash: every listener
\* registered on it runs and calls provider.getTransaction(txHash).
PendingAnnounced(n) ==
    /\ output.fn = "mempool"
    /\ output.subscriptions[n] > 0
    /\ output' = [output EXCEPT !.announcedBy = n,
                                !.fetches = output.subscriptions[n]]
    /\ UNCHANGED input
    /\ PureOnly

MempoolInit ==
    /\ input = [fn |-> "mempool"]
    /\ output = NotMonitoring

MempoolNext ==
    \/ \E n \in Nodes : MonitorMempool(n)
    \/ MonitorMempoolFails
    \/ \E n \in Nodes : PendingAnnounced(n)

-----------------------------------------------------------------------------
(***************************************************************************)
(* The contract's entry points of a flash loan (src/contracts/             *)
(* BaseAlphaArb.sol): executeArbitrage (lines 149-169) and the callback    *)
(* executeOperation (lines 171-249).  A transaction is one call of either  *)
(* by an account; executeArbitrage calls POOL.flashLoanSimple, and the     *)
(* pool calls executeOperation back with the caller of flashLoanSimple,    *)
(* the contract, as initiator.  A revert anywhere reverts the              *)
(* transaction.                                                            *)
(***************************************************************************)

\* The contract itself, the lending pool and two accounts.
Addresses == {"contract", "pool", "deployer", "stranger"}

\* A transaction: its sender and the function it calls, the state of the
\* contract and the block, and the arguments.  initiator and assetMatches
\* are arguments of a direct call of executeOperation.
FlashLoanInputs ==
    [fn : {"flashloan"},
     entry : {"executeArbitrage", "executeOperation"},
     sender : Addresses \ {"contract"},
     owner : {"deployer", "contract"},
     paused : BOOLEAN,
     hops : 0..2,
     flashLoanAmount : 0..1,
     timestamp : {1},
     deadline : 0..2,
     initiator : Addresses,
     assetMatches : BOOLEAN,
     swapsSucceed : BOOLEAN]

NoTransaction ==
    [fn |-> "flashloan", pc |-> "sent", caller |-> "deployer",
     initiator |-> "deployer", hopsExecuted |-> 0, reverted |-> "no"]

\* onlyOwner whenNotPaused (nonReentrant passes: no call is in progress)
\* and the three requires of executeArbitrage.
ArbitrageRevert(in) ==
    IF in.sender # in.owner THEN "OwnableUnauthorizedAccount"
    ELSE IF in.paused THEN "EnforcedPause"
    ELSE IF ~(in.hops > 0) THEN "Invalid path length"
    ELSE IF ~(in.flashLoanAmount > 0) THEN "Invalid flash loan amount"
    ELSE IF ~(in.deadline > in.timestamp) THEN "Deadline expired"
    ELSE "no"

\* The requires of executeOperation up to the loop over the hops.
OperationRevert(in, caller, initiator, assetMatches) ==
    IF caller # "pool" THEN "Invalid caller"
    ELSE IF initiator # in.owner THEN "Invalid initiator"
    ELSE IF in.paused THEN "Contract paused"
    ELSE IF in.hops = 0 THEN "Panic"
    ELSE IF ~assetMatches THEN "Token mismatch"
    ELSE IF ~(in.deadline >= in.timestamp) THEN "Arbitrage deadline expired"
    ELSE "no"

\* executeArbitrage up to the call of POOL.flashLoanSimple(address(this), ...).
RequestFlashLoan ==
    /\ output.fn = "flashloan"
    /\ output.pc = "sent"
    /\ input.entry = "executeArbitrage"
    /\ output' = IF ArbitrageRevert(input) # "no"
                   THEN [output EXCEPT !.pc = "reverted",
                                       !.reverted = ArbitrageRevert(input)]
                   ELSE [output EXCEPT !.pc = "callback", !.caller = "pool",
                                       !.initiator = "contract"]
    /\ UNCHANGED input
    /\ PureOnly

\* An account calls executeOperation itself.
CallExecuteOperation ==
    /\ output.fn = "flashloan"
    /\ output.pc = "sent"
    /\ input.entry = "executeOperation"
    /\ output' = [output EXCEPT !.pc = "callback", !.caller = input.sender,
                                !.initiator = input.initiator]
    /\ UNCHANGED input
    /\ PureOnly

\* executeOperation: its requires, then the hops; a swap that fails or a
\* loan that cannot be repaid reverts.
ExecuteOperation ==
    /\ output.fn = "flashloan"
    /\ output.pc = "callback"
    /\ LET assetMatches == input.entry = "executeArbitrage" \/ input.assetMatches
           r == OperationRevert(input, output.caller, output.initiator, assetMatches)
       IN  output' =
             IF r # "no"
               THEN [output EXCEPT !.pc = "reverted", !.reverted = r]
             ELSE IF ~input.swapsSucceed
               THEN [output EXCEPT !.pc = "reverted", !.reverted = "swap"]
             ELSE [output EXCEPT !.pc = "returned", !.hopsExecuted = input.hops]
    /\ UNCHANGED input
    /\ PureOnly

FlashLoanInit ==
    /\ input \in FlashLoanInputs
    /\ output = NoTransaction

FlashLoanNext ==
    \/ RequestFlashLoan
    \/ CallExecuteOperation
    \/ ExecuteOperation

-----------------------------------------------------------------------------
(***************************************************************************)
(* Specifications.  Each runs one part of the program and leaves the other *)
(* parts in their initial state.                                           *)
(***************************************************************************)

BuilderQuiet == BuilderInit /\ chainCount = 0

\* The builder after its init() calls: this.nonce holds the pending count.
BuilderReady ==
    /\ chainCount \in StartCounts
    /\ nonce = SomeNonce(chainCount)
    /\ bpc = [t \in BuilderTasks |-> IF t \in InitTasks THEN "done" ELSE "idle"]
    /\ fetched = [t \in BuilderTasks |-> 0]
    /\ tx = [e \in Execs |-> NoTx]
    /\ issued = <<>>
    /\ sent = <<>>
    /\ pendingTxs = {}
    /\ repl = NoRepl

\* Builds, and replacements of the transactions they track.
ReplaceNext ==
    \/ \E e \in Execs : BuildStart(e)
    \/ \E e \in Execs : BuildFinish(e)
    \/ \E e \in Execs : BuildFail(e)
    \/ \E e \in Execs : ValidateStep(e)
    \/ \E e \in Execs : SendAccepted(e)
    \/ \E e \in Execs : SendRejected(e)
    \/ ReplaceCall
    \/ ReplaceSigned
    \/ ReplaceAccepted
    \/ ReplaceRejected

AlertOff == AlertQuiet /\ enabled = {}

InitBuilder == BuilderInit /\ BotInit /\ RpcInit /\ AlertOff /\ CandQuiet /\ ScanQuiet /\ RouteQuiet
             /\ BestQuiet /\ GuardQuiet /\ WindowQuiet /\ PureQuiet

SpecBuilder == InitBuilder /\ [][BuilderNext]_vars

InitBot == BuilderQuiet /\ BotInit /\ RpcInit /\ AlertOff /\ CandQuiet /\ ScanQuiet /\ RouteQuiet
             /\ BestQuiet /\ GuardQuiet /\ WindowQuiet /\ PureQuiet

SpecBot == InitBot /\ [][BotNext]_vars

InitRpc == BuilderQuiet /\ BotInit /\ RpcInit /\ AlertOff /\ CandQuiet /\ ScanQuiet /\ RouteQuiet
             /\ BestQuiet /\ GuardQuiet /\ WindowQuiet /\ PureQuiet

SpecRpc == InitRpc /\ [][RpcNext]_vars

\* Timers fire, and the probes of an endpoint succeed in the end.
RpcFairness ==
    \A n \in Nodes : WF_vars(TimerFire(n)) /\ SF_vars(ProbeSucceed(n))

LiveSpecRpc == SpecRpc /\ RpcFairness

SpecRestored == InitRpc /\ [][RestoredNext]_vars

InitReplace == BuilderReady /\ BotInit /\ RpcInit /\ AlertOff /\ CandQuiet /\ ScanQuiet /\ RouteQuiet
             /\ BestQuiet /\ GuardQuiet /\ WindowQuiet /\ PureQuiet

SpecReplace == InitReplace /\ [][ReplaceNext]_vars

InitAlert == BuilderQuiet /\ BotInit /\ RpcInit /\ AlertInit /\ CandQuiet /\ ScanQuiet /\ RouteQuiet
             /\ BestQuiet /\ GuardQuiet /\ WindowQuiet /\ PureQuiet

SpecAlert == InitAlert /\ [][AlertNext]_vars

InitCandidate == BuilderQuiet /\ BotInit /\ RpcInit /\ AlertOff /\ CandInit /\ ScanQuiet /\ RouteQuiet
             /\ BestQuiet /\ GuardQuiet /\ WindowQuiet /\ PureQuiet

SpecCandidate == InitCandidate /\ [][CandNext]_vars

InitScanner == BuilderQuiet /\ BotInit /\ RpcInit /\ AlertOff /\ CandQuiet /\ ScanInit /\ RouteQuiet
             /\ BestQuiet /\ GuardQuiet /\ WindowQuiet /\ PureQuiet

SpecScanner == InitScanner /\ [][ScanNext]_vars

InitRoute == BuilderQuiet /\ BotInit /\ RpcInit /\ AlertOff /\ CandQuiet /\ ScanQuiet /\ RouteInit
             /\ BestQuiet /\ GuardQuiet /\ WindowQuiet /\ PureQuiet

SpecRoute == InitRoute /\ [][RouteNext]_vars

InitBest == BuilderQuiet /\ BotInit /\ RpcInit /\ AlertOff /\ CandQuiet /\ ScanQuiet
            /\ RouteQuiet /\ BestQuiet /\ GuardQuiet /\ WindowQuiet /\ PureQuiet

SpecBest == InitBest /\ [][BestNext]_vars

LiveSpecBest == SpecBest /\ BestFairness

InitGuard == BuilderQuiet /\ BotInit /\ RpcInit /\ AlertOff /\ CandQuiet /\ ScanQuiet
             /\ RouteQuiet /\ BestQuiet /\ GuardQuiet /\ WindowQuiet /\ PureQuiet

SpecGuard == InitGuard /\ [][GuardSteps]_vars

InitWindow == BuilderQuiet /\ BotInit /\ RpcInit /\ AlertOff /\ CandQuiet /\ ScanQuiet
              /\ RouteQuiet /\ BestQuiet /\ GuardQuiet /\ WindowQuiet /\ PureQuiet

SpecWindow == InitWindow /\ [][WindowNext]_vars

OthersQuiet ==
    /\ BuilderQuiet /\ BotInit /\ RpcInit /\ AlertOff /\ CandQuiet /\ ScanQuiet
    /\ RouteQuiet /\ BestQuiet /\ GuardQuiet /\ WindowQuiet

InitDeadline == OthersQuiet /\ DeadlineInit

SpecDeadline == InitDeadline /\ [][DeadlineNext]_vars

InitStartup == OthersQuiet /\ StartupInit

SpecStartup == InitStartup /\ [][StartupNext]_vars

InitSignal == OthersQuiet /\ SignalInit

SpecSignal == InitSignal /\ [][SignalNext]_vars

InitSlippage == OthersQuiet /\ SlippageInit

SpecSlippage == InitSlippage /\ [][SlippageNext]_vars

InitSimulation == OthersQuiet /\ SimulationInit

SpecSimulation == InitSimulation /\ [][SimulationNext]_vars

InitPremium == OthersQuiet /\ PremiumInit

SpecPremium == InitPremium /\ [][PremiumNext]_vars

InitCycle == OthersQuiet /\ CycleInit

SpecCycle == InitCycle /\ [][CycleNext]_vars

InitStatistical == OthersQuiet /\ StatisticalInit

SpecStatistical == InitStatistical /\ [][StatisticalNext]_vars

InitMetrics == OthersQuiet /\ MetricsInit

SpecMetrics == InitMetrics /\ [][MetricsNext]_vars

InitCointegration == OthersQuiet /\ CointegrationInit

SpecCointegration == InitCointegration /\ [][CointegrationNext]_vars

InitMempool == OthersQuiet /\ MempoolInit

SpecMempool == InitMempool /\ [][MempoolNext]_vars

InitFlashLoan == OthersQuiet /\ FlashLoanInit

SpecFlashLoan == InitFlashLoan /\ [][FlashLoanNext]_vars

-----------------------------------------------------------------------------
(***************************************************************************)
(* Properties of the TransactionBuilder (under SpecBuilder).               *)
(***************************************************************************)

\* C1: of two nonces handed out by successive builds the later is strictly
\* greater, so that no two built transactions share a nonce, whatever the
\* interleaving of the builds with the two init() calls and updateNonce.
C1_NonceStrictlyIncreasing ==
    \A i, j \in 1..Len(issued) : i < j => issued[i] < issued[j]

\* C2: every transaction that was broadcast, and every transaction the build
\* hands to executeOpportunity, has maxFeePerGas <= maxGasPriceGwei in wei,
\* whatever base fee and fee history the network reported.
C2_FeeWithinCeiling ==
    /\ \A i \in 1..Len(sent) :
         sent[i].maxFeePerGas <= ParseGwei(MaxGasPriceGwei)
    /\ \A e \in Execs :
         bpc[e] \in {"validate", "send"} =>
            tx[e].maxFeePerGas <= ParseGwei(MaxGasPriceGwei)

\* A transaction was broadcast whose fee sits exactly at the ceiling: the
\* network asked for more and the fee was clamped.
C2_ClampedBroadcast ==
    \E i \in 1..Len(sent) : sent[i].maxFeePerGas = ParseGwei(MaxGasPriceGwei)

-----------------------------------------------------------------------------
(***************************************************************************)
(* Properties of the orchestrator (under SpecBot).                         *)
(***************************************************************************)

\* C3: when the loop's catch block finds the counter at maxConsecutiveErrors
\* it enters emergency shutdown (emergencyShutdown set, isRunning cleared, the
\* 'Emergency Stop' alert requested) and the task then leaves the loop; below
\* the maximum it goes to the backoff sleep and leaves the flags alone; and
\* once the flag is set no task starts a scan cycle.  (The steps of a loop
\* task are those that move it while the process lives.)
C3_ShutdownAtMaxErrors ==
    [][\A l \in Loops :
          (lpc'[l] # lpc[l] /\ ~Exited') =>
             /\ lpc[l] \in {"crit_alert", "handled"} =>
                   IF consecutiveErrors >= MaxConsecutiveErrors
                     THEN /\ emergencyShutdown'
                          /\ ~isRunning'
                          /\ AlertAt(lpc'[l]) = "Emergency Stop"
                     ELSE /\ lpc'[l] = "backoff"
                          /\ emergencyShutdown' = emergencyShutdown
                          /\ isRunning' = isRunning
             /\ lpc[l] = "estopping" => lpc'[l] = "idle"
             /\ emergencyShutdown => lpc'[l] # "scanning"
      ]_vars

\* The loop has counted maxConsecutiveErrors failed cycles and awaits the
\* 'Emergency Stop' alert, with no process-level handler involved.
C3_LoopInEmergencyStop ==
    \E l \in Loops :
        /\ lpc[l] = "estopping"
        /\ consecutiveErrors = MaxConsecutiveErrors
        /\ emergencyShutdown
        /\ hpc = "idle"

\* C4: once emergencyStop has been entered the flag is never cleared, no scan
\* cycle starts and no task broadcasts a transaction (sendTransaction returns
\* and the task goes on to await the confirmation).
C4_EmergencyShutdownTerminal ==
    [][emergencyShutdown =>
          /\ emergencyShutdown'
          /\ \A l \in Loops : lpc'[l] = "confirming" => lpc[l] = "confirming"
          /\ \A l \in Loops : lpc'[l] = "scanning" => lpc[l] = "scanning"
      ]_vars

\* C5: a scan cycle that ends with a failed execution (broadcast failure,
\* revert, confirmation timeout) leaves the consecutive error counter one
\* higher (unless the process exits).
C5_ExecutionFailureCounts ==
    [][\A l \in Loops :
          (lpc[l] = "exec_alert" /\ lpc'[l] \notin CyclePcs /\ ~Exited') =>
             consecutiveErrors' = consecutiveErrors + 1
      ]_vars

\* C6: at most one start() task is inside a scan cycle at any time.
C6_OneCycleAtATime ==
    Cardinality({l \in Loops : lpc[l] \in CyclePcs}) <= 1

\* C7: a task is in executeOpportunity only for a candidate that passed, in
\* this order, shape validation, the accountant, the MEV guard, the gas check
\* and the simulation, and whose simulated net profit is at least 1.5 times
\* the threshold.
C7_ExecuteOnlyAfterAllGates ==
    \A l \in Loops :
        lpc[l] \in {"executing", "confirming", "exec_ok_alert", "build_alert",
                   "exec_alert"} =>
           /\ gates[l].trace = <<<<"validate", "ok">>, <<"profit", "ok">>,
                                 <<"mev", "ok">>, <<"gas", "ok">>,
                                 <<"simulate", "ok">>, <<"margin", "ok">>>>
           /\ 2 * gates[l].netProfitUSD >= 3 * MinProfitThresholdUSD

\* A task has entered executeOpportunity with a candidate whose simulated net
\* profit is exactly 1.5 times the threshold.
C7_ExecutingAtMargin ==
    \E l \in Loops :
        /\ lpc[l] = "executing"
        /\ 2 * gates[l].netProfitUSD = 3 * MinProfitThresholdUSD

-----------------------------------------------------------------------------
(***************************************************************************)
(* Properties of the RPC transport (under SpecRpc and LiveSpecRpc).        *)
(***************************************************************************)

\* A step in which getHealthyProvider visibly ran: the cursor moved, or a
\* call began on the endpoint it returned.
SelectionStep ==
    \/ currentIndex' # currentIndex
    \/ \E m \in Nodes : inflight'[m] > inflight[m]

\* C8: an endpoint whose last three calls failed is unhealthy at every later
\* getHealthyProvider call, and a call begins on it only when no endpoint is
\* healthy.
C8_UnhealthyAtNextSelection ==
    [][SelectionStep =>
          \A n \in Nodes :
             failStreak[n] >= UnhealthyAfter =>
                /\ ~isHealthy[n]
                /\ (inflight'[n] > inflight[n] => ~AnyHealthy(isHealthy))
      ]_vars

\* C8, amended: the third consecutive failed call (and each one after it)
\* leaves the endpoint unhealthy; only a probe of it that completes makes it
\* healthy again; and while it is unhealthy a call begins on it only when no
\* endpoint is healthy.
C8_UnhealthyUntilProbed ==
    [][\A n \in Nodes :
          /\ (failStreak'[n] > failStreak[n] /\ failStreak'[n] >= UnhealthyAfter)
                => ~isHealthy'[n]
          /\ (~isHealthy[n] /\ isHealthy'[n]) => probes'[n] < probes[n]
          /\ (~isHealthy[n] /\ inflight'[n] > inflight[n])
                => ~AnyHealthy(isHealthy)
      ]_vars

\* An endpoint has failed three calls in a row and is unhealthy, and the call
\* in flight was given to another, healthy endpoint.
C8_FailedOverToHealthy ==
    \E n, m \in Nodes :
        /\ n # m
        /\ failStreak[n] >= UnhealthyAfter
        /\ ~isHealthy[n]
        /\ isHealthy[m]
        /\ inflight[m] > 0

\* C9: when a call begins on the endpoint getHealthyProvider returned and some
\* endpoint was healthy, that endpoint is healthy, every endpoint between the
\* cursor and it is unhealthy, and the cursor ends just past it; when none was
\* healthy the fallback nodes[0] is returned after one full round, which
\* leaves the cursor where it was.  No endpoint is visited twice.
C9_HealthyWheneverOneExists ==
    [][\A n \in Nodes :
          inflight'[n] > inflight[n] =>
             LET skipped == (n + NumNodes - currentIndex) % NumNodes
             IN  IF AnyHealthy(isHealthy)
                   THEN /\ isHealthy[n]
                        /\ skipped + 1 <= NumNodes
                        /\ \A k \in 0..(skipped - 1) :
                              ~isHealthy[(currentIndex + k) % NumNodes]
                        /\ currentIndex' = (n + 1) % NumNodes
                   ELSE /\ n = 0
                        /\ currentIndex' = currentIndex
      ]_vars

\* A call is in flight on the only healthy endpoint, and the cursor stands
\* just past it: the unhealthy endpoints were passed over.
C9_PassedOverUnhealthy ==
    \E n \in Nodes :
        /\ inflight[n] > 0
        /\ isHealthy[n]
        /\ \A m \in Nodes \ {n} : ~isHealthy[m]
        /\ currentIndex = (n + 1) % NumNodes

\* C10: an unhealthy endpoint always has a probe timer or a probe
\* outstanding; a probe that completes either makes the endpoint healthy or
\* schedules the next probe; and, timers firing and probes succeeding in the
\* end, every unhealthy endpoint becomes healthy again.
C10_UnhealthyIsProbedAndRestored ==
    /\ [](\A n \in Nodes : ~isHealthy[n] => Pending(n) > 0)
    /\ [][\A n \in Nodes :
             probes'[n] < probes[n] =>
                \/ isHealthy'[n]
                \/ (~isHealthy'[n] /\ timers'[n] > timers[n])
         ]_vars
    /\ \A n \in Nodes : (~isHealthy[n]) ~> isHealthy[n]

\* An endpoint that was marked unhealthy at three failures is healthy again:
\* a probe of it succeeded (failureCount is not reset by a probe).
C10_RestoredByProbe ==
    \E n \in Nodes : isHealthy[n] /\ failureCount[n] >= UnhealthyAfter

-----------------------------------------------------------------------------
(***************************************************************************)
(* Shutdown of the orchestrator (under SpecBot).                           *)
(***************************************************************************)

\* C12: a graceful stop() returns and releases the resources only when
\* every transaction the bot broadcasts, the one of the cycle in flight at
\* the call included, has had its receipt or failure observed, or when 30 s
\* were spent waiting: at the return pendingTransactions is empty or the
\* wait lasted 30 s, and no cycle broadcasts a transaction after the return.
C12_GracefulStopWaits ==
    [][/\ (spc = "waiting" /\ spc' = "stopped")
            => (pendingTransactions = {} \/ stopElapsed + StopSleep >= MaxWaitTime)
       /\ (spc = "stopped" /\ ~isRunning /\ ~Exited')
            => pendingTransactions' \subseteq pendingTransactions]_vars

-----------------------------------------------------------------------------
(***************************************************************************)
(* Nonce accounting and replacements of the TransactionBuilder (under      *)
(* SpecBuilder).                                                           *)
(***************************************************************************)

\* C13: the nonce counter counts dispatched transactions only: a build that
\* took a nonce and ends without a broadcast (gas estimation, signing,
\* validation or the broadcast failed) does not consume it, so when no other
\* build is under way the counter is back at the nonce the build took.
C13_FailedBuildKeepsNonce ==
    [][\A e \in Execs :
          (/\ bpc[e] \in {"fee", "validate", "send"}
           /\ bpc'[e] = "idle"
           /\ sent' = sent
           /\ \A o \in Execs \ {e} : bpc[o] = "idle")
              => nonce'.value = tx[e].nonce]_vars

\* C16: a broadcast rejected for a nonce mismatch (the transaction's nonce is
\* below the wallet's pending count) is not surfaced at once: the builder
\* first re-reads the pending count (updateNonce) in order to retry (under
\* SpecBuilder).
C16_NonceMismatchIsRetried ==
    [][\A e \in Execs :
          (/\ bpc[e] = "send"
           /\ tx[e].nonce < chainCount
           /\ bpc'[e] # "send")
              => bpc'[e] = "upd_req"]_vars

\* C14: a replacement carries the nonce of the tracked original and no step
\* of a replacement changes the nonce counter; after a replacement returned,
\* at most one transaction with that nonce is tracked in pendingTxs; a call
\* with an unknown hash fails with 'Transaction not found' and changes
\* nothing (under SpecReplace).
C14_ReplacementKeepsNonce ==
    [][/\ (repl'.pc = "sign" /\ repl.pc # "sign")
            => repl'.new.nonce = repl'.old.nonce
       /\ (repl' # repl) => nonce' = nonce
       /\ (repl.pc = "send" /\ repl'.pc = "returned")
            => Cardinality({t \in pendingTxs' : t.nonce = repl.old.nonce}) <= 1
       /\ (repl' # repl /\ repl'.error = "Transaction not found")
            => UNCHANGED <<nonce, chainCount, tx, issued, sent, pendingTxs>>]_vars

\* C15: a replacement signed by cancelTransaction or speedUpTransaction has
\* maxFeePerGas <= maxGasPriceGwei in wei, whatever the multiplier and the
\* fee of the original (under SpecReplace).
C15_ReplacementWithinCeiling ==
    repl.pc \in {"send", "returned"}
        => repl.new.maxFeePerGas <= ParseGwei(MaxGasPriceGwei)

-----------------------------------------------------------------------------
(***************************************************************************)
(* Properties of the alerting system (under SpecAlert).                    *)
(***************************************************************************)

\* C11: any two alerts with the same key (level, title, serialized data)
\* that were handed to channels are at least cooldown(level) apart, also
\* when several sendAlert calls for the key are in flight at the same time.
C11_DispatchesCooldownApart ==
    \A i, j \in 1..Len(alertLog) :
        (/\ i < j
         /\ alertLog[i].key = alertLog[j].key
         /\ alertLog[i].channels > 0
         /\ alertLog[j].channels > 0)
            => alertLog[j].at - alertLog[i].at
                   >= GetCooldownForLevel(alertLog[i].key[1])

-----------------------------------------------------------------------------
(***************************************************************************)
(* Properties of the candidate loop (under SpecCandidate).                 *)
(***************************************************************************)

\* Nothing vetoes the candidate: its path is well-formed, the accountant
\* finds the net profit at the threshold, the MEV guard answers safe, the gas
\* price is below the ceiling, the simulation succeeds with a net profit at
\* the margin; and a netProfitUSD field, where the object has one, is at the
\* threshold too.
NothingVetoes(o) ==
    /\ \A g \in Gates : o[g] = "ok"
    /\ ~Borderline(o.netProfitUSD)
    /\ o.listed.set => o.listed.value >= MinProfitThresholdUSD

\* C17: a candidate the scanner returned, whose net profit meets the
\* thresholds and which nothing vetoes, is handed to executeOpportunity by
\* the scan cycle (which builds and broadcasts its transaction).
C17_PassingCandidateExecuted ==
    (verdict.done /\ NothingVetoes(opp)) => verdict.execute

\* C18: a candidate vetoed during evaluation (profit below the threshold,
\* MEV veto, gas price too high, simulation failure) has the 'Opportunity
\* Missed' warning alert requested for it.
C18_VetoRequestsMissedAlert ==
    (/\ verdict.done
     /\ \E g \in {"profit", "mev", "gas", "simulate"} :
           verdict.trace[Len(verdict.trace)] = <<g, "veto">>)
        => verdict.alert = "Opportunity Missed"

-----------------------------------------------------------------------------
(***************************************************************************)
(* Properties of the scanner (under SpecScanner).                          *)
(***************************************************************************)

-----------------------------------------------------------------------------
(***************************************************************************)
(* Properties of the route cache (under SpecRoute).                        *)
(***************************************************************************)

\* A getRoute call of caller t for key k begins in this step and hands a
\* request to the rate limiter.
RequestsProvider(t, k) ==
    /\ gcall[t].pc = "idle"
    /\ gcall'[t].pc = "waiting"
    /\ gcall'[t].key = k

\* A getRoute call for key k begins in this step and returns route r from
\* the cache.
ServedFromCache(k, r) ==
    /\ lastCall'[k] # lastCall[k]
    /\ lastCall'[k] = ReturnedCall(r, gclock, TRUE)

\* C20 as stated: when the call made last for a tuple returned a route, a
\* call for the same tuple made within RouteTTL seconds after that return
\* makes no provider request and returns the same route.
C20_RepeatWithinTTLServedFromCache ==
    [][\A t \in RouteCallers, k \in RouteKeys :
          (/\ lastCall[k].state = "returned"
           /\ gclock <= lastCall[k].at + RouteTTL)
          => /\ ~RequestsProvider(t, k)
             /\ \A r \in ProviderRoutes :
                   ServedFromCache(k, r) => r = lastCall[k].route]_vars

\* C20, amended: when a call for a tuple fetched a route from the provider
\* and returned it, a call for the same tuple made within RouteTTL seconds
\* after the latest such return makes no provider request and returns that
\* route.
C20_FetchedRouteServedWithinTTL ==
    [][\A t \in RouteCallers, k \in RouteKeys :
          (/\ lastFetch[k].state = "returned"
           /\ gclock <= lastFetch[k].at + RouteTTL)
          => /\ ~RequestsProvider(t, k)
             /\ \A r \in ProviderRoutes :
                   ServedFromCache(k, r) => r = lastFetch[k].route]_vars

\* Reached: a call was answered from the cache some seconds after the route
\* was fetched, and the fetch is the only provider request made.
C20_ServedFromCache ==
    \E k \in RouteKeys :
        /\ lastCall[k].state = "returned"
        /\ lastCall[k].hit
        /\ lastCall[k].at > lastFetch[k].at
        /\ lastCall[k].route = lastFetch[k].route
        /\ providerRequests = 1

\* C23: every cached route, and every route a call fetched and returned, has
\* a returnAmount of at least MinReturn, a non-empty hop list and a strictly
\* positive gas estimate.
C23_RoutesAreValidated ==
    \A k \in RouteKeys :
        /\ routeCache[k].set =>
              /\ routeCache[k].value.returnAmount >= MinReturn
              /\ routeCache[k].value.hops > 0
              /\ routeCache[k].value.gasEstimate > 0
        /\ lastFetch[k].state = "returned" =>
              /\ lastFetch[k].route.returnAmount >= MinReturn
              /\ lastFetch[k].route.hops > 0
              /\ lastFetch[k].route.gasEstimate > 0

-----------------------------------------------------------------------------
(***************************************************************************)
(* Properties of getBestRoute (under SpecBest and LiveSpecBest).           *)
(***************************************************************************)

\* C21: getBestRoute returns a route whose returnAmount is at least that of
\* every source that answered, returns null exactly when every source
\* failed, and a source that failed does not make the call fail.
C21_BestRouteIsHighest ==
    best.pc = "done" =>
        /\ best.result.null <=> best.errors = Len(AggregatorPriority)
        /\ Len(best.routes) + best.errors = Len(AggregatorPriority)
        /\ ~best.result.null =>
              /\ \E i \in 1..Len(best.routes) : best.result.route = best.routes[i]
              /\ \A i \in 1..Len(best.routes) :
                    best.result.route.returnAmount >= best.routes[i].returnAmount

\* Reached: the source of lower priority answered the higher return amount
\* and its route is the one returned.
C21_LaterSourceWins ==
    /\ best.pc = "done"
    /\ Len(best.routes) = 2
    /\ best.routes[1].returnAmount < best.routes[2].returnAmount
    /\ best.result.route = best.routes[2]

\* C22: a getBestRoute call terminates: whatever the sources answer, also
\* 'rate limited' errors again and again, it returns a route or null.
C22_BestRouteTerminates ==
    (best.pc = "loop") ~> (best.pc = "done")

-----------------------------------------------------------------------------
(***************************************************************************)
(* Properties of the MEV check (under SpecGuard).                          *)
(***************************************************************************)

\* C24: whenever at least one of the four vetoes answers unsafe,
\* checkOpportunity answers unsafe with the reasons of the vetoes that did,
\* and the candidate is not executed.
C24_UnsafeVetoBlocks ==
    (guard.pc # "idle" /\ \E v \in VetoSet : guard.checks[v] = "unsafe") =>
        /\ ~guard.result.safe
        /\ \A v \in VetoSet :
              guard.checks[v] = "unsafe" <=>
                  \E i \in 1..Len(guard.result.reasons) : guard.result.reasons[i] = v
        /\ guard.pc = "evaluated" => ~guard.execute

\* Reached: a candidate every other gate passes, with a margin that is not
\* borderline, was evaluated and not executed because one veto was unsafe.
C24_BlockedByOneVeto ==
    /\ guard.pc = "evaluated"
    /\ guard.checks = [NoChecks EXCEPT !["sandwich"] = "unsafe"]
    /\ EvaluateOpportunity(guard.opp).execute
    /\ ~guard.execute

\* C37: whenever every one of the four vetoes either answered safe or failed
\* with an error, checkOpportunity answers safe with no reasons: the error
\* reaches the caller as no exception and does not block the candidate, which
\* is executed exactly when the other gates pass it.
C37_FailedVetoIsSafe ==
    (guard.pc # "idle" /\ \A v \in VetoSet : guard.checks[v] \in {"safe", "rejected"}) =>
        /\ guard.result = [safe |-> TRUE, reasons |-> <<>>]
        /\ guard.pc = "evaluated" =>
               guard.execute = EvaluateOpportunity(guard.opp).execute

\* Reached: checkTimingSafety rejected, the other vetoes answered safe, and
\* the candidate, which every other gate passes, was evaluated to be executed.
C37_ExecutedDespiteRejectedVeto ==
    /\ guard.pc = "evaluated"
    /\ guard.checks = [NoChecks EXCEPT !["timing"] = "rejected"]
    /\ guard.result.safe
    /\ guard.execute

-----------------------------------------------------------------------------
(***************************************************************************)
(* Properties of the pending-transaction window (under SpecWindow).        *)
(***************************************************************************)

\* C25: at every time, each entry of the window was observed no more than
\* WindowSpan seconds ago.  (That the number of entries is bounded for any
\* arrival rate is not a property of a run with MaxArrivals arrivals; the map
\* keeps every arrival until a cleanup.)
C25_WindowEntriesAreRecent ==
    \A k \in TxKeys : window[k] # Absent => wclock - window[k] <= WindowSpan

-----------------------------------------------------------------------------
(***************************************************************************)
(* Properties of the execution of an opportunity with a deadline (under    *)
(* SpecDeadline).                                                          *)
(***************************************************************************)

\* C26: for an opportunity whose deadline is not in the future at execution
\* time, the bot broadcasts no transaction, and executeArbitrage reverts
\* without requesting a flash loan.
C26_ExpiredOpportunityRejected ==
    input.deadline <= input.now =>
        /\ output.broadcast # "yes"
        /\ output.chain # "flashLoan"

-----------------------------------------------------------------------------
(***************************************************************************)
(* Properties of the startup (under SpecStartup).                          *)
(***************************************************************************)

\* validateFullConfig has returned a result with at least one error.
ValidationReportedErrors ==
    /\ input.errors > 0
    /\ input.throwAt # "validate"
    /\ output.pc \notin {"idle", "validating"}

\* C27: once the startup validation of the configuration has reported an
\* error, a critical alert has been requested, isInitialized is false and
\* stays false, and the scan loop is not started.
C27_InvalidConfigNeverStarts ==
    ValidationReportedErrors =>
        /\ output.critical >= 1
        /\ ~output.isInitialized
        /\ ~output.isRunning
        /\ output.pc \in {"config_alert", "exited"}

\* Reached: the validation reported errors for a configuration on which
\* nothing else would fail, and the process has exited after the alert.
C27_ExitedOnInvalidConfig ==
    /\ ValidationReportedErrors
    /\ input.throwAt = "none"
    /\ output.exited
    /\ output.critical = 1

-----------------------------------------------------------------------------
(***************************************************************************)
(* Properties of getTradingSignal (under SpecSignal).                      *)
(***************************************************************************)

\* The thresholds the engine was constructed with, in tenths.
EntryOf(in) == OrDefault(in.entryThreshold, DefaultEntryThreshold)

ExitOf(in) == OrDefault(in.exitThreshold, DefaultExitThreshold)

\* |z| < t / 10.
AbsBelow(z, t) == 100 * z.num * z.num * z.n < t * t * z.den * z.den * z.q

\* C28: getTradingSignal returns one signal.  With too few ratios or a
\* standard deviation of 0 it is HOLD.  Else, taking the conditions in this
\* order, it is SHORT_A_LONG_B when z > entry threshold, LONG_A_SHORT_B when
\* z < -entry threshold, CLOSE_POSITION when |z| < exit threshold, and HOLD
\* otherwise.
C28_SignalFollowsZScore ==
    output.pc = "returned" =>
        LET z == output.zScore
            entry == EntryOf(input)
            exit == ExitOf(input)
            short == ZAbove(z, entry)
            long == ZBelow(z, 0 - entry)
            close == AbsBelow(z, exit)
        IN  /\ output.signal \in {"SHORT_A_LONG_B", "LONG_A_SHORT_B",
                                  "CLOSE_POSITION", "HOLD"}
            /\ (\/ 10 * Len(input.history) < 7 * ZWindowSize
                \/ \A i \in 1..Len(input.history) :
                      input.history[i] = input.history[1])
                  => output.signal = "HOLD"
            /\ z.null => output.signal = "HOLD"
            /\ ~z.null =>
                  /\ short => output.signal = "SHORT_A_LONG_B"
                  /\ long => output.signal = "LONG_A_SHORT_B"
                  /\ (close /\ ~short /\ ~long) => output.signal = "CLOSE_POSITION"
                  /\ (~close /\ ~short /\ ~long) => output.signal = "HOLD"

\* Reached: a z-score of exactly the entry threshold (1.0: the ratios
\* 1, 1, 3, 3 and a current ratio of 3), for which the signal is HOLD.
C28_HoldAtEntryThreshold ==
    /\ output.pc = "returned"
    /\ input.history = <<1, 1, 3, 3>>
    /\ input.priceA = 6 /\ input.priceB = 2
    /\ input.entryThreshold = 10 /\ input.exitThreshold = 0
    /\ ~output.zScore.null
    /\ ZAtLeast(output.zScore, 10)
    /\ output.signal = "HOLD"

-----------------------------------------------------------------------------
(***************************************************************************)
(* Properties of the slippage model (under SpecSlippage).                  *)
(***************************************************************************)

\* C29: for one trade size and liquidities liq1 <= liq2, both at least 0,
\* the slippage estimated for liq2 is at most the one estimated for liq1.
C29_SlippageNonIncreasingInLiquidity ==
    (/\ output.s1 # Unknown
     /\ output.s2 # Unknown
     /\ 0 <= input.liq1
     /\ input.liq1 <= input.liq2) => output.s2 <= output.s1

\* Reached: two liquidities on the two sides of the edge 0.005 of the ratio,
\* with a strictly smaller slippage for the larger one.
C29_SmallerAcrossAnEdge ==
    /\ input.tradeSizeUSD = 1
    /\ input.liq1 = 200
    /\ input.liq2 = 201
    /\ output.s1 = 20
    /\ output.s2 = 10

-----------------------------------------------------------------------------
(***************************************************************************)
(* Properties of simulateTransaction (under SpecSimulation).               *)
(***************************************************************************)

\* Gross profit minus gas, flash-loan premium and slippage buffer.
ProjectedNetProfit(in) ==
    in.grossProfitUSD - in.gasCostUSD - in.flashLoanCostUSD - in.slippageBufferUSD

\* C30: a simulation that ran to its end, on the remote path or on the local
\* one, reports success exactly when the projected net profit (gross profit
\* minus gas, flash-loan premium and slippage buffer) is strictly positive.
C30_SuccessIffNetProfitPositive ==
    (output.pc = "returned" /\ output.hasNetProfit) =>
        (output.success <=> ProjectedNetProfit(input) > 0)

-----------------------------------------------------------------------------
(***************************************************************************)
(* Properties of the flash-loan premium (under SpecPremium).               *)
(***************************************************************************)

\* The premium rate in force: the configured one, 9 bps when none is.
PremiumBpsOf(in) ==
    IF in.flashLoanPremiumBps = 0 THEN 9 ELSE in.flashLoanPremiumBps

\* C31: for every non-negative amount the premium is the whole number
\* floor(amount * premiumBps / 10000), with premiumBps = 9 when none is
\* configured; it is the one whole number p with
\* 10000 * p <= amount * premiumBps < 10000 * (p + 1).
C31_PremiumIsFloor ==
    output.done =>
        /\ output.premium \in Nat
        /\ 10000 * output.premium <= input.amount * PremiumBpsOf(input)
        /\ input.amount * PremiumBpsOf(input) < 10000 * (output.premium + 1)

\* Reached: the premium of 100 tokens of 4 decimals at the default 9 bps is
\* 0.09 token, and the premium of 1112 units, 1.0008 exactly, is 1 unit.
C31_PremiumOfHundred ==
    /\ output.done
    /\ input.flashLoanPremiumBps = 0
    /\ \/ input.amount = 1000000 /\ output.premium = 900
       \/ input.amount = 1112 /\ output.premium = 1

-----------------------------------------------------------------------------
(***************************************************************************)
(* Properties of the error handling of the scan loop (under SpecBot).      *)
(***************************************************************************)

\* Task l's cycle fails in this step: handleCycleError counts the error.
CycleFails(l) ==
    /\ lpc[l] = "scanning"
    /\ consecutiveErrors' = consecutiveErrors + 1

\* C32: in a burst of consecutive cycle errors the 'Scan Cycle Error' alert
\* is requested by the first error of the burst and by no other; the
\* critical 'Approaching Emergency Shutdown' warning is requested when the
\* count reaches MaxConsecutiveErrors - 2; and a cycle that ends
\* successfully sets the count to 0, so that the next error is the first of
\* a new burst.
C32_AlertsOfABurst ==
    [][\A l \in Loops :
          /\ (lpc'[l] = "err_alert" /\ lpc[l] # "err_alert") =>
                CycleFails(l) /\ consecutiveErrors = 0
          /\ (CycleFails(l) /\ lpc'[l] # lpc[l] /\ consecutiveErrors = 0) =>
                lpc'[l] = "err_alert"
          /\ (CycleFails(l) /\ lpc'[l] # lpc[l]
                /\ consecutiveErrors' = MaxConsecutiveErrors - 2) =>
                lpc'[l] = "crit_alert"
          /\ (lpc[l] \in CyclePcs /\ lpc'[l] = "sleeping") =>
                consecutiveErrors' = 0]_vars

\* Reached: the critical warning is awaited with the count at
\* MaxConsecutiveErrors - 2.
C32_WarningBeforeShutdown ==
    \E l \in Loops :
        /\ lpc[l] = "crit_alert"
        /\ consecutiveErrors = MaxConsecutiveErrors - 2

-----------------------------------------------------------------------------
(***************************************************************************)
(* Properties of the marking of an endpoint (under SpecRestored).          *)
(***************************************************************************)

\* C33: an endpoint that is healthy becomes unhealthy only by a failed call
\* that is the third failed call in a row on it, the failures being counted
\* from the last successful call or from the probe that restored the
\* endpoint; with fewer it stays healthy.
C33_UnhealthyOnlyByThreeFailures ==
    [][\A n \in Nodes :
          (isHealthy[n] /\ ~isHealthy'[n]) =>
              /\ failStreak'[n] > failStreak[n]
              /\ failureCount'[n] = UnhealthyAfter
      ]_vars

-----------------------------------------------------------------------------
(***************************************************************************)
(* Properties of the candidate loop (under SpecCycle).                     *)
(***************************************************************************)

EvaluatedAt == { k \in 1..Len(output.events) : output.events[k].kind = "evaluate" }

SucceededAt ==
    { k \in 1..Len(output.events) :
        output.events[k].kind = "execute" /\ output.events[k].result = "success" }

\* C34: in one scan cycle at most 5 candidates are evaluated, in
\* non-increasing order of their net profit, and the successful execution of
\* a candidate is the last event of the cycle: no candidate is evaluated or
\* executed after it, so a cycle has at most one successful execution.
C34_TopFiveUntilFirstSuccess ==
    output.fn = "cycle" =>
        /\ Cardinality(EvaluatedAt) <= 5
        /\ \A j, k \in EvaluatedAt :
               j < k => output.events[j].netProfitUSD >= output.events[k].netProfitUSD
        /\ \A k \in SucceededAt : k = Len(output.events)
        /\ Cardinality(SucceededAt) <= 1

\* A scan of six opportunities, the first without a netProfitUSD field, whose
\* cycle evaluated five candidates and ended with the success of the fifth.
C34_FifthCandidateSucceeds ==
    /\ output.fn = "cycle" /\ output.pc = "done"
    /\ Len(input.opportunities) = 6
    /\ ~input.opportunities[1].listed.set
    /\ Cardinality(EvaluatedAt) = 5
    /\ SucceededAt = {Len(output.events)}

-----------------------------------------------------------------------------
(***************************************************************************)
(* Properties of the statistical scan (under SpecStatistical).             *)
(***************************************************************************)

\* The signal getTradingSignal gives the pair for the same z-score.
SignalOfPair ==
    SignalOf(output.zScore,
             OrDefault(input.entryThreshold, DefaultEntryThreshold),
             DefaultExitThreshold)

-----------------------------------------------------------------------------
(***************************************************************************)
(* Properties of the metrics collector (under SpecMetrics).                *)
(***************************************************************************)

RECURSIVE SuccessfulProfit(_)
SuccessfulProfit(executions) ==
    IF executions = <<>> THEN 0
    ELSE (IF Head(executions).success THEN Head(executions).netProfitUSD ELSE 0)
         + SuccessfulProfit(Tail(executions))

\* C36: after any sequence of recordExecution calls the total_profit_usd
\* gauge equals the sum of netProfitUSD over the executions recorded as
\* successful.  (Violated: total_profit_usd is created as a gauge only, so
\* incrementCounter finds no such counter and the gauge is set to 0.)
C36_TotalProfitGaugeIsSum ==
    output.fn = "metrics" =>
        output.gauges["total_profit_usd"] = SuccessfulProfit(output.executions)

-----------------------------------------------------------------------------
(***************************************************************************)
(* Properties of the cointegration test (under SpecCointegration).         *)
(***************************************************************************)

\* C38: with the lookback of 500, getHistoricalPrices samples every 5th
\* block and returns at most 100 prices, fewer than the 400 the test
\* requires; so testCointegration answers null, the pair is not marked
\* cointegrated and getMonitoredPairs is empty.
C38_NeverCointegrated ==
    output.fn = "cointegration" =>
        /\ output.i % 5 = 0
        /\ \A t \in PairTokens : output.prices[t] <= 100 /\ output.prices[t] < 400
        /\ output.result # "cointegrated"
        /\ ~output.cointegrated
        /\ output.monitored = 0

\* Reached: both tokens had a price at every sampled block, 100 prices each,
\* the statistics would have passed with a half-life below the threshold,
\* and getMonitoredPairs answered no pair.
C38_HundredPricesEach ==
    /\ output.fn = "cointegration" /\ output.pc = "done"
    /\ \A t \in PairTokens : output.prices[t] = 100
    /\ input.halfLife = 10
    /\ output.result = "null"
    /\ output.monitored = 0

-----------------------------------------------------------------------------
(***************************************************************************)
(* Properties of the mempool monitoring (under SpecMempool).               *)
(***************************************************************************)

\* C39: however long the monitoring runs, at most one 'pending'
\* subscription is registered per endpoint, so a pending hash causes at
\* most one transaction fetch on the endpoint that announced it.
\* (Violated: every firing of the one-second interval registers one more
\* listener on the provider it is given.)
C39_OneSubscriptionPerEndpoint ==
    output.fn = "mempool" =>
        /\ \A n \in Nodes : output.subscriptions[n] <= 1
        /\ output.fetches <= 1

-----------------------------------------------------------------------------
(***************************************************************************)
(* Properties of the flash-loan entry points (under SpecFlashLoan).        *)
(***************************************************************************)

\* C40: when the owner calls executeArbitrage with a non-empty path, a
\* positive amount and a future deadline, the pool's callback (caller the
\* pool, initiator the address that requested the loan) passes the caller
\* and initiator checks and the hops are executed when the swaps succeed; a
\* callback from another caller or with another initiator reverts.
\* (Violated: the loan is requested by the contract, so the initiator is the
\* contract, and executeOperation requires the initiator to be the owner.)
C40_PoolCallbackPasses ==
    (output.fn = "flashloan" /\ output.pc \in {"returned", "reverted"}) =>
        /\ ( /\ input.entry = "executeArbitrage"
             /\ input.sender = input.owner /\ ~input.paused
             /\ input.hops > 0 /\ input.flashLoanAmount > 0
             /\ input.deadline > input.timestamp )
           => /\ output.reverted \notin {"Invalid caller", "Invalid initiator"}
              /\ input.swapsSucceed => output.hopsExecuted = input.hops
        /\ ( /\ input.entry = "executeOperation"
             /\ input.sender # "pool" \/ input.initiator # "contract" )
           => output.pc = "reverted"

====
